---- MODULE Spec2Model ----
(***************************************************************************)
(* Model of the upload-analyzer extraction core (src/rs/*.rs): the format  *)
(* sniffers, the dispatcher of lib.rs and the five analyzers.              *)
(*                                                                         *)
(* An input buffer is kept as a run-length layout: a sequence of segments  *)
(* [rep, n], each standing for the byte string rep repeated n times.  The  *)
(* operators below read single bytes and slices out of that layout, so a   *)
(* sniffer or parser is written against byte offsets exactly as in the     *)
(* source, while a 512-byte trailer distance or a 100000-byte search       *)
(* window stays at its real size.                                          *)
(*                                                                         *)
(* What the external crates (goblin, pelite, cfb, ar/tar/flate2, plist)    *)
(* return for a buffer is carried beside the bytes as a "view" record;     *)
(* the payload bytes those crates interpret are abbreviated as zero        *)
(* filler, which none of the repository's own byte tests looks at.         *)
(***************************************************************************)
EXTENDS Integers, Sequences, FiniteSets, TLC

VARIABLES input, call, outcome

vars == <<input, call, outcome>>

----------------------------------------------------------------------------
(* Bytes.                                                                  *)

Lit(bytes) == [rep |-> bytes, n |-> 1]

Fill(byte, count) == [rep |-> <<byte>>, n |-> count]

SegLen(s) == Len(s.rep) * s.n

RECURSIVE BufLen(_)
BufLen(segs) ==
    IF segs = <<>> THEN 0 ELSE SegLen(Head(segs)) + BufLen(Tail(segs))

\* data[i], 0-based, for 0 <= i < BufLen(segs)
RECURSIVE ByteAt(_, _)
ByteAt(segs, i) ==
    LET s == Head(segs)
    IN  IF i < SegLen(s)
        THEN s.rep[(i % Len(s.rep)) + 1]
        ELSE ByteAt(Tail(segs), i - SegLen(s))

\* &data[off .. off + cnt], for off + cnt <= BufLen(segs)
Slice(segs, off, cnt) == [k \in 1..cnt |-> ByteAt(segs, off + k - 1)]

\* &data[off ..] as a layout of its own
RECURSIVE DropBytes(_, _)
DropBytes(segs, off) ==
    IF off = 0 \/ segs = <<>> THEN segs
    ELSE LET s == Head(segs)
             l == SegLen(s)
         IN  IF off >= l THEN DropBytes(Tail(segs), off - l)
             ELSE IF s.n = 1
                  THEN <<Lit(SubSeq(s.rep, off + 1, Len(s.rep)))>> \o Tail(segs)
                  ELSE LET r == Len(s.rep)
                           whole == off \div r
                           part == off % r
                       IN  IF part = 0
                           THEN <<[rep |-> s.rep, n |-> s.n - whole]>> \o Tail(segs)
                           ELSE <<Lit(SubSeq(s.rep, part + 1, r)),
                                  [rep |-> s.rep, n |-> s.n - whole - 1]>>
                                \o Tail(segs)

\* the offsets at which a literal (n = 1) segment places a byte: a needle
\* whose first byte is no filler byte can only start at one of them
RECURSIVE LitOffsets(_, _)
LitOffsets(segs, base) ==
    IF segs = <<>> THEN {}
    ELSE LET s == Head(segs)
         IN  (IF s.n = 1 THEN base .. (base + Len(s.rep) - 1) ELSE {})
             \cup LitOffsets(Tail(segs), base + SegLen(s))

FillBytes(segs) ==
    UNION {{segs[k].rep[j] : j \in 1..Len(segs[k].rep)} :
             k \in {j \in 1..Len(segs) : segs[j].n # 1}}

\* window == needle for the window of data that starts at offset i
Matches(segs, i, needle) ==
    \A k \in 1..Len(needle) : ByteAt(segs, i + k - 1) = needle[k]

MinOf(S) == CHOOSE x \in S : \A y \in S : x <= y

MaxOf(S) == CHOOSE x \in S : \A y \in S : y <= x

\* the first offset >= from at which needle occurs; -1 for None
FindFrom(segs, needle, from) ==
    LET total == BufLen(segs)
        cands == IF needle[1] \in FillBytes(segs)
                 THEN from .. (total - Len(needle))
                 ELSE {i \in LitOffsets(segs, 0) : i >= from /\ i + Len(needle) <= total}
        hits == {i \in cands : Matches(segs, i, needle)}
    IN  IF hits = {} THEN -1 ELSE MinOf(hits)

\* haystack.windows(needle.len()).position(|w| w == needle); -1 for None
find_bytes(segs, needle) == FindFrom(segs, needle, 0)

\* the first cnt bytes of a layout, as a layout
RECURSIVE TakeBytes(_, _)
TakeBytes(segs, cnt) ==
    IF cnt <= 0 \/ segs = <<>> THEN <<>>
    ELSE LET s == Head(segs)
             l == SegLen(s)
         IN  IF cnt >= l THEN <<s>> \o TakeBytes(Tail(segs), cnt - l)
             ELSE IF s.n = 1 THEN <<Lit(SubSeq(s.rep, 1, cnt))>>
             ELSE LET r == Len(s.rep)
                      whole == cnt \div r
                      part == cnt % r
                  IN  (IF whole > 0 THEN <<[rep |-> s.rep, n |-> whole]>> ELSE <<>>)
                      \o (IF part > 0 THEN <<Lit(SubSeq(s.rep, 1, part))>> ELSE <<>>)

\* &data[from .. to], for from <= to <= BufLen(segs)
SubLayout(segs, from, to) == TakeBytes(DropBytes(segs, from), to - from)

U32BE(segs, off) ==
    ByteAt(segs, off) * 16777216 + ByteAt(segs, off + 1) * 65536
      + ByteAt(segs, off + 2) * 256 + ByteAt(segs, off + 3)

----------------------------------------------------------------------------
(* Text: the printable ASCII characters, and strings built from bytes.     *)

AsciiTable ==
  << " ", "!", "\"", "#", "$", "%", "&", "'", "(", ")", "*", "+", ",", "-", ".", "/",
     "0", "1", "2", "3", "4", "5", "6", "7", "8", "9", ":", ";", "<", "=", ">", "?",
     "@", "A", "B", "C", "D", "E", "F", "G", "H", "I", "J", "K", "L", "M", "N", "O",
     "P", "Q", "R", "S", "T", "U", "V", "W", "X", "Y", "Z", "[", "\\", "]", "^", "_",
     "\\x60", "a", "b", "c", "d", "e", "f", "g", "h", "i", "j", "k", "l", "m", "n", "o",
     "p", "q", "r", "s", "t", "u", "v", "w", "x", "y", "z", "{", "|", "}", "~" >>

IsPrintable(b) == b >= 32 /\ b <= 126

\* one byte as text; a byte outside printable ASCII is shown by its number
\* (the grave accent, which a TLA+ string cannot hold, is written \x60)
Chr(b) == IF IsPrintable(b) THEN AsciiTable[b - 31] ELSE "\\x" \o ToString(b)

Ord(c) == CHOOSE b \in 32..126 : AsciiTable[b - 31] = c

\* b"..." : the bytes of a text given character by character
Bytes(cs) == [k \in 1..Len(cs) |-> Ord(cs[k])]

\* bytes as text, the two halves of a longer one after each other
RECURSIVE Str(_)
Str(bytes) ==
    IF bytes = <<>> THEN ""
    ELSE IF Len(bytes) = 1 THEN Chr(bytes[1])
    ELSE LET half == Len(bytes) \div 2
         IN  Str(SubSeq(bytes, 1, half)) \o Str(SubSeq(bytes, half + 1, Len(bytes)))

\* usize::to_string, as bytes: the decimal digits, most significant first
RECURSIVE Decimal(_)
Decimal(k) ==
    IF k < 10 THEN <<48 + k>> ELSE Decimal(k \div 10) \o <<48 + (k % 10)>>

----------------------------------------------------------------------------
(* HashMap<String, String>: keys are strings, values are kept as bytes so   *)
(* that later steps can inspect them; ToJson is the serialisation.          *)

EmptyMap == [k \in {} |-> <<>>]

Insert(m, k, v) == (k :> v) @@ m

\* m.insert(k, v) for each <<k, v>> of kvs in turn: the last value given
\* for a key is the one that stays
InsertAll(m, kvs) ==
    LET keys == {kvs[i][1] : i \in 1..Len(kvs)}
        Last(k) == CHOOSE i \in 1..Len(kvs) :
                       kvs[i][1] = k /\ \A j \in (i + 1)..Len(kvs) : kvs[j][1] # k
    IN  [k \in keys |-> kvs[Last(k)][2]] @@ m

Has(m, k) == k \in DOMAIN m

\* serde_json::to_string(&meta), read back as key -> text
ToJson(m) == [k \in DOMAIN m |-> Str(m[k])]

\* Result<HashMap, String>, and a third outcome for a call that panics
Ok(m) == [kind |-> "ok", map |-> m, err |-> ""]

Err(msg) == [kind |-> "err", map |-> EmptyMap, err |-> msg]

\* a panic: the call returns neither a map nor an error
Panic(msg) == [kind |-> "panic", map |-> EmptyMap, err |-> msg]

NoOutcome == [kind |-> "none", map |-> EmptyMap, err |-> ""]

----------------------------------------------------------------------------
(* Magic numbers.                                                          *)

MSI_SIGNATURE == <<208, 207, 17, 224, 161, 177, 26, 225>>

MIN_MSI_SIGNATURE_SIZE == 8

DMG_KOLY_SIGNATURE == Bytes(<<"k", "o", "l", "y">>)

DMG_KOLY_OFFSET_SIZE == 512

MIN_DMG_SIZE == 512

RPM_LEAD_MAGIC == <<237, 171, 238, 219>>

RPM_HEADER_MAGIC == <<142, 173, 232, 1>>

\* b"!<arch>\n"
AR_GLOBAL_HEADER == Bytes(<<"!", "<", "a", "r", "c", "h", ">">>) \o <<10>>

\* the compression magics is_dmg_file lists
DMG_PREFIX4 == {<<120, 1, 115, 13>>, <<120, 156, 236, 189>>, <<120, 156, 0, 0>>,
                <<66, 90, 104, 57>>, <<66, 90, 104, 49>>}

DMG_PREFIX2 == {<<120, 1>>, <<120, 94>>, <<120, 156>>, <<120, 218>>, <<31, 139>>}

----------------------------------------------------------------------------
(* Byte-string helpers (the str methods the analyzers call).               *)

StartsWith(s, p) == Len(s) >= Len(p) /\ SubSeq(s, 1, Len(p)) = p

EndsWith(s, p) == Len(s) >= Len(p) /\ SubSeq(s, Len(s) - Len(p) + 1, Len(s)) = p

\* str::trim_end_matches(c)
RECURSIVE TrimEndMatches(_, _)
TrimEndMatches(s, c) ==
    IF s # <<>> /\ s[Len(s)] = c THEN TrimEndMatches(SubSeq(s, 1, Len(s) - 1), c)
    ELSE s

\* char::is_whitespace on ASCII: tab, LF, VT, FF, CR, space
IsWhitespace(b) == b \in {9, 10, 11, 12, 13, 32}

\* str::trim
RECURSIVE TrimStart(_)
TrimStart(s) == IF s # <<>> /\ IsWhitespace(s[1]) THEN TrimStart(Tail(s)) ELSE s

RECURSIVE TrimEnd(_)
TrimEnd(s) ==
    IF s # <<>> /\ IsWhitespace(s[Len(s)]) THEN TrimEnd(SubSeq(s, 1, Len(s) - 1))
    ELSE s

Trim(s) == TrimEnd(TrimStart(s))

\* index (1-based) of the first c in s, 0 when there is none
IndexOf(s, c) ==
    LET hits == {k \in 1..Len(s) : s[k] = c}
    IN  IF hits = {} THEN 0 ELSE MinOf(hits)

----------------------------------------------------------------------------
(* Sniffers.                                                               *)

\* a sniffer that compares as many bytes as the buffer has
MsiPrefix(in) ==
    BufLen(in.data) >= 1
      /\ Slice(in.data, 0, MinOf({BufLen(in.data), MIN_MSI_SIGNATURE_SIZE}))
           = SubSeq(MSI_SIGNATURE, 1, MinOf({BufLen(in.data), MIN_MSI_SIGNATURE_SIZE}))

is_msi_file(in) ==
    BufLen(in.data) >= MIN_MSI_SIGNATURE_SIZE
      /\ Slice(in.data, 0, MIN_MSI_SIGNATURE_SIZE) = MSI_SIGNATURE

HasKolyAtTrailer(data) ==
    BufLen(data) >= DMG_KOLY_OFFSET_SIZE
      /\ Slice(data, BufLen(data) - DMG_KOLY_OFFSET_SIZE, 4) = DMG_KOLY_SIGNATURE

HasCompressionPrefix(data) ==
    BufLen(data) >= 4
      /\ (Slice(data, 0, 4) \in DMG_PREFIX4 \/ Slice(data, 0, 2) \in DMG_PREFIX2)

\* a sniffer that takes a compression prefix for enough
PrefixSuffices(in) ==
    IF BufLen(in.data) < MIN_DMG_SIZE THEN FALSE
    ELSE IF HasKolyAtTrailer(in.data) THEN TRUE
    ELSE IF HasCompressionPrefix(in.data) THEN TRUE
    ELSE FALSE

is_dmg_file(in) ==
    IF BufLen(in.data) < MIN_DMG_SIZE THEN FALSE
    ELSE IF HasKolyAtTrailer(in.data) THEN TRUE
    ELSE IF HasCompressionPrefix(in.data) /\ HasKolyAtTrailer(in.data) THEN TRUE
    ELSE FALSE

DEBIAN_BINARY_IDS ==
    { Bytes(<<"d","e","b","i","a","n","-","b","i","n","a","r","y">>),
      Bytes(<<"d","e","b","i","a","n","-","b","i","n","a","r","y","/"," "," "," ">>) }

\* in.ar.members: what ar::Archive::next_entry yields, member by member
is_deb_file(in) ==
    IF BufLen(in.data) < 8 \/ Slice(in.data, 0, 8) # AR_GLOBAL_HEADER THEN FALSE
    ELSE IF in.ar.members # <<>> /\ in.ar.members[1].ok
         THEN in.ar.members[1].id \in DEBIAN_BINARY_IDS
         ELSE FALSE

is_rpm_file(in) ==
    BufLen(in.data) >= 4 /\ Slice(in.data, 0, 4) = RPM_LEAD_MAGIC

----------------------------------------------------------------------------
(* UTF-8, as std decodes it (String::from_utf8, String::from_utf8_lossy).  *)

IsCont(b) == b >= 128 /\ b <= 191

\* bytes of s at 1-based position i and after; 0 past the end (0 is no
\* continuation byte, so a sequence cut short by the end is invalid)
ByteOr0(s, i) == IF i <= Len(s) THEN s[i] ELSE 0

\* one decoding step at position i: [ok, adv]: a valid scalar of adv bytes,
\* or a maximal invalid part of adv bytes (which lossy decoding replaces by
\* U+FFFD)
Utf8Step(s, i) ==
    LET b0 == s[i]
        b1 == ByteOr0(s, i + 1)
        b2 == ByteOr0(s, i + 2)
        b3 == ByteOr0(s, i + 3)
        second3 == IF b0 = 224 THEN b1 >= 160 /\ b1 <= 191
                   ELSE IF b0 = 237 THEN b1 >= 128 /\ b1 <= 159
                   ELSE IsCont(b1)
        second4 == IF b0 = 240 THEN b1 >= 144 /\ b1 <= 191
                   ELSE IF b0 = 244 THEN b1 >= 128 /\ b1 <= 143
                   ELSE IsCont(b1)
    IN  IF b0 < 128 THEN [ok |-> TRUE, adv |-> 1]
        ELSE IF b0 >= 194 /\ b0 <= 223
             THEN IF IsCont(b1) THEN [ok |-> TRUE, adv |-> 2]
                  ELSE [ok |-> FALSE, adv |-> 1]
        ELSE IF b0 >= 224 /\ b0 <= 239
             THEN IF ~second3 THEN [ok |-> FALSE, adv |-> 1]
                  ELSE IF ~IsCont(b2) THEN [ok |-> FALSE, adv |-> 2]
                  ELSE [ok |-> TRUE, adv |-> 3]
        ELSE IF b0 >= 240 /\ b0 <= 244
             THEN IF ~second4 THEN [ok |-> FALSE, adv |-> 1]
                  ELSE IF ~IsCont(b2) THEN [ok |-> FALSE, adv |-> 2]
                  ELSE IF ~IsCont(b3) THEN [ok |-> FALSE, adv |-> 3]
                  ELSE [ok |-> TRUE, adv |-> 4]
        ELSE [ok |-> FALSE, adv |-> 1]

\* the end of the run of ASCII bytes that starts at s[i]
AsciiEnd(s, i) ==
    LET stops == {k \in i..Len(s) : s[k] >= 128}
    IN  IF stops = {} THEN Len(s) + 1 ELSE MinOf(stops)

RECURSIVE IsValidUtf8From(_, _)
IsValidUtf8From(s, i) ==
    IF i > Len(s) THEN TRUE
    ELSE IF s[i] < 128 THEN IsValidUtf8From(s, AsciiEnd(s, i))
    ELSE LET st == Utf8Step(s, i)
         IN  st.ok /\ IsValidUtf8From(s, i + st.adv)

IsValidUtf8(s) == IsValidUtf8From(s, 1)

REPLACEMENT == <<239, 191, 189>>

\* String::from_utf8_lossy on a byte string: a run of ASCII bytes is kept,
\* and so is a well-formed sequence; a malformed one becomes U+FFFD
RECURSIVE LossyFrom(_, _)
LossyFrom(s, i) ==
    IF i > Len(s) THEN <<>>
    ELSE IF s[i] < 128
    THEN SubSeq(s, i, AsciiEnd(s, i) - 1) \o LossyFrom(s, AsciiEnd(s, i))
    ELSE LET st == Utf8Step(s, i)
         IN  (IF st.ok THEN SubSeq(s, i, i + st.adv - 1) ELSE REPLACEMENT)
             \o LossyFrom(s, i + st.adv)

\* String::from_utf8_lossy on a layout, segment by segment.  Exact for a
\* layout none of whose segments begins with a continuation byte and whose
\* filler bytes are ASCII or bytes that are invalid wherever they stand.
LossySeg(s) ==
    IF s.n = 1 THEN Lit(LossyFrom(s.rep, 1))
    ELSE IF \A k \in 1..Len(s.rep) : s.rep[k] < 128 THEN s
    ELSE [rep |-> REPLACEMENT, n |-> s.n]

Lossy(segs) == [k \in 1..Len(segs) |-> LossySeg(segs[k])]

\* str::is_char_boundary
IsCharBoundary(str, idx) ==
    idx = 0 \/ idx = BufLen(str)
      \/ (idx > 0 /\ idx < BufLen(str) /\ ~IsCont(ByteAt(str, idx)))

----------------------------------------------------------------------------
(* RPM analyzer (rpm.rs).                                                  *)

RPM_LEAD_SIZE == 96

\* a tag table with the keys of VERSION and RELEASE exchanged
SwappedTagKey(tag) ==
    CASE tag = 1000 -> "ProductName"
      [] tag = 1001 -> "Release"
      [] tag = 1002 -> "ProductVersion"
      [] tag = 1004 -> "Description"
      [] tag = 1011 -> "Vendor"
      [] tag = 1014 -> "License"
      [] tag = 1016 -> "GroupName"
      [] tag = 1020 -> "Url"
      [] tag = 1022 -> "Architecture"
      [] tag = 1044 -> "SourceRpm"
      [] OTHER -> ""

RpmTagKey(tag) ==
    CASE tag = 1000 -> "ProductName"
      [] tag = 1001 -> "ProductVersion"
      [] tag = 1002 -> "Release"
      [] tag = 1004 -> "Description"
      [] tag = 1011 -> "Vendor"
      [] tag = 1014 -> "License"
      [] tag = 1016 -> "GroupName"
      [] tag = 1020 -> "Url"
      [] tag = 1022 -> "Architecture"
      [] tag = 1044 -> "SourceRpm"
      [] OTHER -> ""

\* Option<String>: [some, s], s the bytes of the string
None == [some |-> FALSE, s |-> <<>>]

Some(str) == [some |-> TRUE, s |-> str]

\* usize on the wasm32 target the crate is built for: 32 bits, kept as its
\* two 16-bit halves [hi, lo]; + and * wrap as they do in a release build
\* (with overflow checks on, the same operations panic instead of wrapping)
HALF == 256 * 256

Usize(n) == [hi |-> n \div HALF, lo |-> n % HALF]

WrappingAdd(a, b) ==
    [hi |-> (a.hi + b.hi + (a.lo + b.lo) \div HALF) % HALF, lo |-> (a.lo + b.lo) % HALF]

\* a * 16
WrappingMul16(a) ==
    [hi |-> (a.hi * 16 + (a.lo * 16) \div HALF) % HALF, lo |-> (a.lo * 16) % HALF]

\* a < b
Below(a, b) == a.hi < b.hi \/ (a.hi = b.hi /\ a.lo < b.lo)

\* a usize below 2^31 as a number
AsInt(a) == a.hi * HALF + a.lo

\* u32::from_be_bytes(...) as usize
U32BEUsize(data, off) ==
    [hi |-> ByteAt(data, off) * 256 + ByteAt(data, off + 1),
     lo |-> ByteAt(data, off + 2) * 256 + ByteAt(data, off + 3)]

\* (total_size + 7) & !7
Padded(total_size) ==
    [hi |-> WrappingAdd(total_size, Usize(7)).hi,
     lo |-> (WrappingAdd(total_size, Usize(7)).lo \div 8) * 8]

StringFrom(data, offset, nuls) ==
    Slice(data, offset, (IF nuls = {} THEN BufLen(data) ELSE MinOf(nuls)) - offset)

Utf8String(bytes) == IF IsValidUtf8(bytes) THEN Some(bytes) ELSE None

\* offset is a usize
read_string(data, offset) ==
    IF ~Below(offset, Usize(BufLen(data))) THEN None
    ELSE Utf8String(StringFrom(data, AsInt(offset),
             {e \in AsInt(offset) .. (BufLen(data) - 1) : ByteAt(data, e) = 0}))

\* what both header functions do first: "" when the 16 fixed bytes are there
\* and start with the magic, "small" or "magic" when the function returns
\* that error, and "panic" when offset + 16 wrapped and the slice
\* data[offset..offset + 4] is out of range
HeaderCheck(data, offset) ==
    IF Below(Usize(BufLen(data)), WrappingAdd(offset, Usize(16))) THEN "small"
    ELSE IF Below(WrappingAdd(offset, Usize(16)), offset) THEN "panic"
    ELSE IF Slice(data, AsInt(offset), 4) # RPM_HEADER_MAGIC THEN "magic"
    ELSE ""

SLICE_PANIC == "range end index out of range for slice"

\* offset + padded_size
SkippedTo(offset, index_count, store_size) ==
    WrappingAdd(offset,
        Padded(WrappingAdd(WrappingAdd(Usize(16), WrappingMul16(index_count)),
                           store_size)))

\* Result<usize, String>: [kind, off, err], kind "panic" when the call panics
skip_header_structure(data, offset) ==
    IF HeaderCheck(data, offset) = "small"
    THEN [kind |-> "err", off |-> Usize(0), err |-> "File too small for Header structure"]
    ELSE IF HeaderCheck(data, offset) = "panic"
    THEN [kind |-> "panic", off |-> Usize(0), err |-> SLICE_PANIC]
    ELSE IF HeaderCheck(data, offset) = "magic"
    THEN [kind |-> "err", off |-> Usize(0), err |-> "Invalid RPM Header magic"]
    ELSE [kind |-> "ok",
          off |-> SkippedTo(offset, U32BEUsize(data, AsInt(offset) + 8),
                            U32BEUsize(data, AsInt(offset) + 12)),
          err |-> ""]

RpmString(meta, key, str) ==
    IF key # "" /\ str.some THEN Insert(meta, key, str.s) ELSE meta

\* one turn of the for loop of parse_header_structure: abs_offset is
\* computed for every entry, and read when the tag is one of the ten
RpmEntryAt(data, entry_offset, store_start, meta) ==
    RpmString(meta, RpmTagKey(U32BE(data, entry_offset)),
              IF RpmTagKey(U32BE(data, entry_offset)) = "" THEN None
              ELSE read_string(data,
                       WrappingAdd(store_start, U32BEUsize(data, entry_offset + 8))))

\* the turns i .. index_count - 1 of the for loop
RECURSIVE RpmIndexLoop(_, _, _, _, _, _)
RpmIndexLoop(data, index_start, store_start, index_count, i, meta) ==
    IF i >= index_count THEN meta
    ELSE RpmIndexLoop(data, index_start, store_start, index_count, i + 1,
             RpmEntryAt(data, index_start + (i * 16), store_start, meta))

\* the index entries whose first twelve bytes lie inside the buffer
Readable(data, index_start) == (BufLen(data) - index_start + 4) \div 16

\* the for loop: it reads bytes 0..11 of every entry, and panics at the
\* first entry that is not inside the buffer
RpmIndex(data, index_start, store_start, index_count, meta) ==
    IF Below(Usize(Readable(data, index_start)), index_count)
    THEN Panic("index out of bounds")
    ELSE Ok(RpmIndexLoop(data, index_start, store_start, AsInt(index_count), 0, meta))

\* the header from the check of the store on; index_start is a number as
\* the 16 fixed bytes are inside the buffer
RpmStore(data, index_start, store_start, index_count, store_size, meta) ==
    IF Below(Usize(BufLen(data)), WrappingAdd(store_start, store_size))
    THEN Err("RPM file truncated in Header structure")
    ELSE RpmIndex(data, index_start, store_start, index_count, meta)

RpmHeader(data, offset, index_count, store_size, meta) ==
    RpmStore(data, offset + 16,
             WrappingAdd(Usize(offset + 16), WrappingMul16(index_count)),
             index_count, store_size, meta)

\* Result<(), String> with the map it filled: an outcome; offset is a usize
parse_header_structure(data, offset, meta) ==
    IF HeaderCheck(data, offset) = "small"
    THEN Err("File too small for Immutable Header")
    ELSE IF HeaderCheck(data, offset) = "panic" THEN Panic(SLICE_PANIC)
    ELSE IF HeaderCheck(data, offset) = "magic"
    THEN Err("Invalid RPM Immutable Header magic")
    ELSE RpmHeader(data, AsInt(offset), U32BEUsize(data, AsInt(offset) + 8),
                   U32BEUsize(data, AsInt(offset) + 12), meta)

Skipped(data, skipped, meta) ==
    IF skipped.kind = "err" THEN Err(skipped.err)
    ELSE IF skipped.kind = "panic" THEN Panic(skipped.err)
    ELSE parse_header_structure(data, skipped.off, meta)

RPMAnalyzer_parse_metadata(in) ==
    IF BufLen(in.data) < RPM_LEAD_SIZE THEN Err("File too small for RPM Lead")
    ELSE Skipped(in.data, skip_header_structure(in.data, Usize(RPM_LEAD_SIZE)),
                 Insert(EmptyMap, "Format", Bytes(<<"R","P","M">>)))

RPMAnalyzer_get_file_info(in) == Insert(EmptyMap, "Format", Bytes(<<"R","P","M">>))

----------------------------------------------------------------------------
(* DEB analyzer (deb.rs).                                                  *)
(* in.ar.members is what the ar crate yields member by member ([ok, id]);  *)
(* in.tar is what flate2 and tar yield for the first control.tar member:   *)
(* [entriesOk, entries], each entry [ok, pathOk, path, readOk, content].   *)

\* str::lines: split at LF, a final empty piece dropped, one CR before the
\* LF dropped
RECURSIVE Lines(_)
Lines(content) ==
    IF content = <<>> THEN <<>>
    ELSE LET nl == IndexOf(content, 10)
             raw == IF nl = 0 THEN content ELSE SubSeq(content, 1, nl - 1)
             line == IF raw # <<>> /\ raw[Len(raw)] = 13
                     THEN SubSeq(raw, 1, Len(raw) - 1) ELSE raw
             rest == IF nl = 0 THEN <<>> ELSE SubSeq(content, nl + 1, Len(content))
         IN  <<line>> \o Lines(rest)

\* the loop body without the two trims
UntrimmedLine(line, meta) ==
    LET colon == IndexOf(line, 58)
        key == SubSeq(line, 1, colon - 1)
        value == SubSeq(line, colon + 1, Len(line))
    IN  IF colon = 0 THEN meta
        ELSE IF key # <<>> /\ value # <<>> THEN Insert(meta, Str(key), value)
        ELSE meta

\* the body of the for loop of parse_control_file, for one line
ControlLine(line, meta) ==
    LET colon == IndexOf(line, 58)
        key == Trim(SubSeq(line, 1, colon - 1))
        value == Trim(SubSeq(line, colon + 1, Len(line)))
    IN  IF colon = 0 THEN meta
        ELSE IF key # <<>> /\ value # <<>> THEN Insert(meta, Str(key), value)
        ELSE meta

RECURSIVE ControlLines(_, _)
ControlLines(lines, meta) ==
    IF lines = <<>> THEN meta
    ELSE ControlLines(Tail(lines), ControlLine(Head(lines), meta))

parse_control_file(content, meta) == ControlLines(Lines(content), meta)

CONTROL_TAR == Bytes(<<"c","o","n","t","r","o","l",".","t","a","r">>)

CONTROL_PATHS == { Bytes(<<"c","o","n","t","r","o","l">>),
                   Bytes(<<".","/","c","o","n","t","r","o","l">>) }

\* the loop over the tar entries of control.tar.gz
RECURSIVE DebTarLoop(_, _, _)
DebTarLoop(entries, k, meta) ==
    IF k > Len(entries) THEN Ok(meta)
    ELSE LET e == entries[k]
         IN  IF ~e.ok THEN Err("Failed to read tar entry")
             ELSE IF ~e.pathOk THEN Err("Failed to get tar path")
             ELSE IF e.path \in CONTROL_PATHS
                  THEN IF ~e.readOk \/ ~IsValidUtf8(e.content)
                       THEN Err("Failed to read control file")
                       ELSE Ok(parse_control_file(e.content, meta))
                  ELSE DebTarLoop(entries, k + 1, meta)

\* the while loop over the ar members, from member k on
RECURSIVE DebArLoop(_, _, _)
DebArLoop(in, k, meta) ==
    IF k > Len(in.ar.members) THEN Err("control.tar not found in DEB archive")
    ELSE LET m == in.ar.members[k]
             name == TrimEndMatches(IF IsValidUtf8(m.id) THEN m.id ELSE <<>>, 47)
         IN  IF ~m.ok THEN Err("Failed to read ar entry")
             ELSE IF StartsWith(name, CONTROL_TAR)
                  THEN IF EndsWith(name, Bytes(<<".", "g", "z">>))
                       THEN IF ~in.tar.entriesOk THEN Err("Failed to read tar entries")
                            ELSE DebTarLoop(in.tar.entries, 1, meta)
                       ELSE Err("Unsupported control archive compression: " \o Str(name))
                  ELSE DebArLoop(in, k + 1, meta)

DEBAnalyzer_parse_metadata(in) ==
    DebArLoop(in, 1, Insert(EmptyMap, "Format", Bytes(<<"D","E","B">>)))

DEBAnalyzer_get_file_info(in) ==
    Insert(Insert(EmptyMap, "type",
                  Bytes(<<"D","E","B"," ","(","D","e","b","i","a","n"," ",
                          "P","a","c","k","a","g","e",")">>)),
           "size", Decimal(BufLen(in.data)))

----------------------------------------------------------------------------
(* More byte-string helpers.                                               *)

IsAsciiDigit(b) == b >= 48 /\ b <= 57

IsAsciiAlpha(b) == (b >= 65 /\ b <= 90) \/ (b >= 97 /\ b <= 122)

\* char::is_alphanumeric, char::is_alphabetic, char::is_numeric on the
\* characters the inputs hold: ASCII, and U+FFFD (whose bytes are in no class)
IsAlphanumeric(b) == IsAsciiDigit(b) \/ IsAsciiAlpha(b)

\* str::contains
Contains(s, p) ==
    \E k \in 1..(Len(s) - Len(p) + 1) : SubSeq(s, k, k + Len(p) - 1) = p

\* str::split(c), as the sequence of pieces
RECURSIVE SplitOn(_, _)
SplitOn(s, c) ==
    LET k == IndexOf(s, c)
    IN  IF k = 0 THEN <<s>>
        ELSE <<SubSeq(s, 1, k - 1)>> \o SplitOn(SubSeq(s, k + 1, Len(s)), c)

\* str::split_whitespace
RECURSIVE SplitWhitespace(_)
SplitWhitespace(s) ==
    LET t == TrimStart(s)
        ends == {k \in 1..Len(t) : IsWhitespace(t[k])}
        k == IF ends = {} THEN Len(t) + 1 ELSE MinOf(ends)
    IN  IF t = <<>> THEN <<>>
        ELSE <<SubSeq(t, 1, k - 1)>> \o SplitWhitespace(SubSeq(t, k, Len(t)))

\* [String]::join(" ")
RECURSIVE JoinSpace(_)
JoinSpace(words) ==
    IF words = <<>> THEN <<>>
    ELSE IF Len(words) = 1 THEN words[1]
    ELSE words[1] \o <<32>> \o JoinSpace(Tail(words))

ReplaceByte(s, from, to) == [k \in 1..Len(s) |-> IF s[k] = from THEN to ELSE s[k]]

capitalize_first(s) ==
    IF s = <<>> THEN <<>>
    ELSE <<IF s[1] >= 97 /\ s[1] <= 122 THEN s[1] - 32 ELSE s[1]>> \o Tail(s)

\* char::is_control: C0, DEL (and C1, which the inputs do not hold)
IsControl(b) == b < 32 \/ b = 127

sanitize_string(s) ==
    JoinSpace(SplitWhitespace(SelectSeq(s, LAMBDA c : ~IsControl(c) \/ IsWhitespace(c))))

----------------------------------------------------------------------------
(* DMG analyzer (dmg.rs).                                                  *)
(* in.plist is what the plist crate makes of a candidate slice: it parses  *)
(* the byte string in.plist.text to a dictionary whose String entries are  *)
(* in.plist.dict (key -> bytes), and fails on every other slice.           *)

PLIST_WINDOW == 100000

BPLIST_LIMIT == 50000

XML_MARKERS ==
    << Bytes(<<"<","?","x","m","l"," ","v","e","r","s","i","o","n","=","\"","1",".","0",
               "\"">>),
       Bytes(<<"<","p","l","i","s","t"," ","v","e","r","s","i","o","n","=">>),
       Bytes(<<"<","!","D","O","C","T","Y","P","E"," ","p","l","i","s","t">>) >>

PLIST_MENTIONS ==
    { Bytes(<<"C","F","B","u","n","d","l","e","N","a","m","e">>),
      Bytes(<<"C","F","B","u","n","d","l","e","I","d","e","n","t","i","f","i","e","r">>),
      Bytes(<<"C","F","B","u","n","d","l","e","V","e","r","s","i","o","n">>) }

\* Option::or
OrElse(a, b) == IF a.some THEN a ELSE b

\* meta with key set to the value of an Option, when it is Some
InsertSome(meta, key, option) ==
    IF option.some THEN Insert(meta, key, option.s) ELSE meta

\* a slice of the buffer: Option<layout>
NoSlice == [some |-> FALSE, data |-> <<>>]

SomeSlice(region, from, to) == [some |-> TRUE, data |-> SubLayout(region, from, to)]

\* &data[pos .. end_abs + 8], when </plist> is found at end_abs and the
\* lossy string of the slice mentions a bundle key
MentionsBundle(region, pos, end_abs) ==
    IF end_abs >= 0
         /\ \E m \in PLIST_MENTIONS :
               find_bytes(Lossy(SubLayout(region, pos, end_abs + 8)), m) >= 0
    THEN SomeSlice(region, pos, end_abs + 8)
    ELSE NoSlice

PlistFrom(region, pos) ==
    IF pos < 0 THEN NoSlice
    ELSE MentionsBundle(region, pos, FindFrom(region, Bytes(<<"<","/","p","l","i","s","t",">">>), pos))

\* the XML branch of find_plist_in_region for one marker
XmlCandidate(region, marker) == PlistFrom(region, find_bytes(region, marker))

RECURSIVE XmlCandidates(_, _)
XmlCandidates(region, k) ==
    IF k > Len(XML_MARKERS) THEN NoSlice
    ELSE OrElse(XmlCandidate(region, XML_MARKERS[k]), XmlCandidates(region, k + 1))

\* data[pos .. (pos + 50000).min(data.len())]
BinaryPlist(region, pos) ==
    IF pos < 0 THEN NoSlice
    ELSE SomeSlice(region, pos,
                   IF pos + BPLIST_LIMIT < BufLen(region) THEN pos + BPLIST_LIMIT
                   ELSE BufLen(region))

find_plist_in_region(region) ==
    OrElse(XmlCandidates(region, 1), BinaryPlist(region, find_bytes(region, Bytes(<<"b","p","l","i","s","t">>))))

\* Option<Vec<u8>> as [panic, some, data]: data is the layout of the slice
Sliced(slice) == [panic |-> FALSE, some |-> slice.some, data |-> slice.data]

\* &data[search_start..search_end] panics when its start is past its end
SearchRegion(data, search_start, search_end) ==
    IF search_start > search_end
    THEN [panic |-> TRUE, some |-> FALSE, data |-> <<>>]
    ELSE Sliced(OrElse(find_plist_in_region(SubLayout(data, search_start, search_end)),
                       find_plist_in_region(data)))

AroundInfoPlist(data, info_plist_pos) ==
    IF info_plist_pos < 0 THEN Sliced(find_plist_in_region(data))
    ELSE SearchRegion(data,
             IF info_plist_pos > PLIST_WINDOW THEN info_plist_pos - PLIST_WINDOW ELSE 0,
             IF info_plist_pos + PLIST_WINDOW < BufLen(data)
             THEN info_plist_pos + PLIST_WINDOW ELSE BufLen(data))

find_plist_in_dmg(data) ==
    AroundInfoPlist(data, find_bytes(Lossy(data), Bytes(<<"C","o","n","t","e","n","t","s","/","I","n","f","o",".","p","l","i","s","t">>)))

\* Value::from_reader_xml(..).or_else(Value::from_reader(..)) is a Dictionary
PlistParses(in, plist_data) ==
    in.plist.text # <<>>
      /\ BufLen(plist_data) = Len(in.plist.text)
      /\ Matches(plist_data, 0, in.plist.text)

keys_to_extract ==
    <<
       <<"CFBundleName", "ProductName">>,
       <<"CFBundleDisplayName", "DisplayName">>,
       <<"CFBundleExecutable", "ExecutableName">>,
       <<"CFBundleIdentifier", "BundleIdentifier">>,
       <<"CFBundleShortVersionString", "ProductVersion">>,
       <<"CFBundleVersion", "FileVersion">>,
       <<"NSHumanReadableCopyright", "LegalCopyright">>,
       <<"CFBundleGetInfoString", "FileDescription">>,
       <<"LSApplicationCategoryType", "ApplicationCategory">>,
       <<"CFBundlePackageType", "PackageType">>,
       <<"NSPrincipalClass", "PrincipalClass">>,
       <<"CFBundleIconFile", "IconFile">>,
       <<"LSMinimumSystemVersion", "MinimumSystemVersion">> >>

CapitalizedWords(words) ==
    JoinSpace([k \in 1..Len(words) |-> capitalize_first(words[k])])

LastOf(parts) == parts[Len(parts)]

\* ApplicationCategory: last dot segment, '-' to ' ', words capitalised
CleanCategory(value) ==
    CapitalizedWords(SplitWhitespace(ReplaceByte(LastOf(SplitOn(value, 46)), 45, 32)))

\* what the loop over keys_to_extract inserts for a trimmed, non-empty value
PlistValue(meta_key, value) ==
    IF meta_key = "ApplicationCategory" THEN CleanCategory(value) ELSE value

\* s.trim() of the String under plist_key; empty when there is none
PlistString(dict, plist_key) ==
    IF plist_key \in DOMAIN dict THEN Trim(dict[plist_key]) ELSE <<>>

PlistValues(found) ==
    [k \in 1..Len(found) |-> <<found[k][1], PlistValue(found[k][1], found[k][2])>>]

\* the for loop over keys_to_extract
PlistKeysLoop(dict, meta) ==
    InsertAll(meta,
        PlistValues(SelectSeq([k \in 1..Len(keys_to_extract) |->
                                 <<keys_to_extract[k][2],
                                   PlistString(dict, keys_to_extract[k][1])>>],
                              LAMBDA found : found[2] # <<>>)))

SecondPart(parts) ==
    IF Len(parts) >= 2 /\ parts[2] # <<>>
         /\ \A k \in 1..Len(parts[2]) : IsAlphanumeric(parts[2][k])
    THEN Some(capitalize_first(parts[2]))
    ELSE None

\* CompanyName out of a bundle identifier: Option<bytes>
CompanyFromBundleId(bundle_id) == SecondPart(SplitOn(bundle_id, 46))

DisplayAsName(meta) ==
    IF ~Has(meta, "ProductName") /\ Has(meta, "DisplayName")
    THEN Insert(meta, "ProductName", meta["DisplayName"]) ELSE meta

VersionAsFileVersion(meta) ==
    IF Has(meta, "ProductVersion") /\ ~Has(meta, "FileVersion")
    THEN Insert(meta, "FileVersion", meta["ProductVersion"]) ELSE meta

CompanyOfBundle(meta) ==
    IF ~Has(meta, "CompanyName") /\ Has(meta, "BundleIdentifier")
    THEN InsertSome(meta, "CompanyName", CompanyFromBundleId(meta["BundleIdentifier"]))
    ELSE meta

parse_plist_properly(in, plist_data, meta) ==
    IF ~PlistParses(in, plist_data) THEN meta
    ELSE CompanyOfBundle(VersionAsFileVersion(DisplayAsName(
             PlistKeysLoop(in.plist.dict, meta))))

\* &data_str[value_start + 8 .. value_end] when it is non-empty and shorter
\* than limit (offsets into the lossy string): Option<bytes>
XmlString(str, value_start, value_end, limit) ==
    IF value_end >= 0 /\ value_end - (value_start + 8) > 0
         /\ value_end - (value_start + 8) < limit
    THEN Some(Slice(str, value_start + 8, value_end - (value_start + 8)))
    ELSE None

XmlAfter(str, value_start, limit) ==
    IF value_start < 0 THEN None
    ELSE XmlString(str, value_start, FindFrom(str, Bytes(<<"<","/","s","t","r","i","n","g",">">>), value_start), limit)

XmlKeyed(str, start, limit) ==
    IF start < 0 THEN None ELSE XmlAfter(str, FindFrom(str, Bytes(<<"<","s","t","r","i","n","g",">">>), start), limit)

\* the text between <string> and </string> that follows <key>name</key>
XmlText(str, name, limit) ==
    XmlKeyed(str, find_bytes(str, Bytes(<<"<","k","e","y",">">>) \o name \o Bytes(<<"<","/","k","e","y",">">>)), limit)

\* meta.insert(key, value.trim()) for the value of an Option
InsertTrimmed(meta, key, option) ==
    IF option.some THEN Insert(meta, key, Trim(option.s)) ELSE meta

DisplayName(meta, name) ==
    IF ~name.some THEN meta
    ELSE IF ~Has(meta, "ProductName")
    THEN InsertAll(meta, << <<"ProductName", Trim(name.s)>>,
                            <<"DisplayName", Trim(name.s)>> >>)
    ELSE Insert(meta, "DisplayName", Trim(name.s))

ShortVersion(meta, version) ==
    IF version.some
    THEN InsertAll(meta, << <<"ProductVersion", Trim(version.s)>>,
                            <<"FileVersion", Trim(version.s)>> >>)
    ELSE meta

BundleVersion(meta, version) ==
    IF ~Has(meta, "ProductVersion") /\ version.some
    THEN InsertAll(meta, << <<"ProductVersion", Trim(version.s)>>,
                            <<"FileVersion", Trim(version.s)>>,
                            <<"FileVersionNumber", Trim(version.s)>> >>)
    ELSE meta

ApplicationCategory(meta, category) ==
    IF category.some
    THEN Insert(meta, "ApplicationCategory", CleanCategory(Trim(category.s)))
    ELSE meta

extract_plist_info(str, meta) ==
    InsertTrimmed(
      ApplicationCategory(
        InsertTrimmed(
          InsertTrimmed(
            BundleVersion(
              ShortVersion(
                DisplayName(
                  InsertTrimmed(meta, "ProductName", XmlText(str, Bytes(<<"C","F","B","u","n","d","l","e","N","a","m","e">>), 100)),
                  XmlText(str, Bytes(<<"C","F","B","u","n","d","l","e","D","i","s","p","l","a","y","N","a","m","e">>), 100)),
                XmlText(str, Bytes(<<"C","F","B","u","n","d","l","e","S","h","o","r","t","V","e","r","s","i","o","n","S","t","r","i","n","g">>), 50)),
              XmlText(str, Bytes(<<"C","F","B","u","n","d","l","e","V","e","r","s","i","o","n">>), 50)),
            "LegalCopyright", XmlText(str, Bytes(<<"N","S","H","u","m","a","n","R","e","a","d","a","b","l","e","C","o","p","y","r","i","g","h","t">>), 200)),
          "FileDescription", XmlText(str, Bytes(<<"C","F","B","u","n","d","l","e","G","e","t","I","n","f","o","S","t","r","i","n","g">>), 200)),
        XmlText(str, Bytes(<<"L","S","A","p","p","l","i","c","a","t","i","o","n","C","a","t","e","g","o","r","y","T","y","p","e">>), 100)),
      "PrincipalClass", XmlText(str, Bytes(<<"N","S","P","r","i","n","c","i","p","a","l","C","l","a","s","s">>), 100))

\* the first offset >= i whose byte is neither a digit nor '.'
RECURSIVE SkipVersionChars(_, _)
SkipVersionChars(str, i) ==
    IF i < BufLen(str) /\ (IsAsciiDigit(ByteAt(str, i)) \/ ByteAt(str, i) = 46)
    THEN SkipVersionChars(str, i + 1) ELSE i

VersionFound(version_str, meta) ==
    IF version_str # <<>> /\ IndexOf(version_str, 46) # 0
    THEN InsertAll(meta, << <<"ProductVersion", version_str>>,
                            <<"FileVersion", version_str>> >>)
    ELSE meta

\* after_version[..end], when the digits and dots that begin at start end
\* before the string does
VersionUpTo(str, start, end, meta) ==
    IF end >= BufLen(str) THEN meta
    ELSE VersionFound(Slice(str, start, end - start), meta)

VersionAt(str, pos, meta) ==
    IF pos < 0 THEN meta
    ELSE VersionUpTo(str, pos + 8, SkipVersionChars(str, pos + 8), meta)

extract_version_strings(str, meta) ==
    IF Has(meta, "ProductVersion") THEN meta
    ELSE VersionAt(str, find_bytes(str, Bytes(<<"V","e","r","s","i","o","n"," ">>)), meta)

BundleCompany(meta, company) ==
    IF ~Has(meta, "CompanyName") /\ company.some
    THEN InsertAll(meta, << <<"CompanyName", company.s>>,
                            <<"Manufacturer", company.s>> >>)
    ELSE meta

BundleId(meta, bundle_id) ==
    IF ~bundle_id.some THEN meta
    ELSE BundleCompany(Insert(meta, "BundleIdentifier", Trim(bundle_id.s)),
                       CompanyFromBundleId(bundle_id.s))

extract_bundle_info(str, meta) ==
    BundleId(meta, XmlText(str, Bytes(<<"C","F","B","u","n","d","l","e","I","d","e","n","t","i","f","i","e","r">>), 200))

company_patterns ==
    << Bytes(<<"C","o","p","y","r","i","g","h","t">>),
       Bytes(<<"I","n","c",".">>),
       Bytes(<<"C","o","r","p","o","r","a","t","i","o","n">>),
       Bytes(<<"C","o","r","p",".">>),
       Bytes(<<"L","L","C">>),
       Bytes(<<"L","t","d",".">>),
       Bytes(<<"L","i","m","i","t","e","d">>) >>

ContextStart(pos) == IF pos > 100 THEN pos - 100 ELSE 0

ContextEnd(str, pos) == IF pos + 100 < BufLen(str) THEN pos + 100 ELSE BufLen(str)

\* &data_str[start..end] panics unless both ends are character boundaries
ContextPanics(str, pos) ==
    ~IsCharBoundary(str, ContextStart(pos)) \/ ~IsCharBoundary(str, ContextEnd(str, pos))

\* trim_start_matches(numeric, copyright sign, '(', ')', '-', whitespace);
\* the copyright sign is the two bytes C2 A9 of the string
RECURSIVE TrimCopyrightLead(_)
TrimCopyrightLead(t) ==
    IF t = <<>> THEN t
    ELSE IF IsAsciiDigit(t[1]) \/ t[1] \in {40, 41, 45} \/ IsWhitespace(t[1])
         THEN TrimCopyrightLead(Tail(t))
    ELSE IF Len(t) >= 2 /\ t[1] = 194 /\ t[2] = 169
         THEN TrimCopyrightLead(Tail(Tail(t)))
    ELSE t

CompanyUpTo(company, meta) ==
    IF Len(company) > 2 /\ Len(company) < 100 /\ ~Has(meta, "CompanyName")
    THEN InsertAll(meta, << <<"CompanyName", Trim(company)>>,
                            <<"Publisher", Trim(company)>> >>)
    ELSE meta

\* cleaned.find(['\n', '\0', '.']) and what is before it
CompanyAfter(cleaned, meta) ==
    IF \A k \in 1..Len(cleaned) : cleaned[k] \notin {10, 0, 46} THEN meta
    ELSE CompanyUpTo(
             SubSeq(cleaned, 1,
                    MinOf({k \in 1..Len(cleaned) : cleaned[k] \in {10, 0, 46}}) - 1),
             meta)

\* &context[copy_pos + 9..]
AfterCopyright(context, copy_pos) == SubSeq(context, copy_pos + 10, Len(context))

\* the Copyright branch of extract_developer_info
CopyrightCompany(str, pos, meta) ==
    CompanyAfter(
        TrimCopyrightLead(
            AfterCopyright(Slice(str, ContextStart(pos),
                                 ContextEnd(str, pos) - ContextStart(pos)),
                           pos - ContextStart(pos))),
        meta)

PanicsAt(str, pos) == pos >= 0 /\ ContextPanics(str, pos)

\* some pattern of company_patterns is found where the context slice panics
DeveloperInfoPanics(str) ==
    \E k \in 1..Len(company_patterns) :
        PanicsAt(str, find_bytes(str, company_patterns[k]))

CopyrightAt(str, pos, meta) ==
    IF pos >= 0 THEN CopyrightCompany(str, pos, meta) ELSE meta

extract_developer_info(str, meta) ==
    CopyrightAt(str, find_bytes(str, company_patterns[1]), meta)

skip_names ==
    { Bytes(<<"w","w","w">>), Bytes(<<"h","t","m","l">>), Bytes(<<"c","o","m">>), Bytes(<<"h","t","t","p">>), Bytes(<<"h","t","t","p","s">>), Bytes(<<"f","t","p">>), Bytes(<<"t","e","m","p">>), Bytes(<<"t","m","p">>),
      Bytes(<<"t","e","s","t">>), Bytes(<<"e","x","a","m","p","l","e">>), Bytes(<<"d","e","m","o">>), Bytes(<<"d","a","t","a">>), Bytes(<<"c","a","c","h","e">>), Bytes(<<"l","i","b">>), Bytes(<<"b","i","n">>), Bytes(<<"u","s","r">>), Bytes(<<"v","a","r">>),
      Bytes(<<"r","e","s","o","u","r","c","e","s">>), Bytes(<<"f","r","a","m","e","w","o","r","k","s">>), Bytes(<<"m","a","c","o","s">>), Bytes(<<"c","o","n","t","e","n","t","s">>), Bytes(<<"a","p","p","l","i","c","a","t","i","o","n","s">>) }

skip_patterns ==
    { Bytes(<<"h","t","t","p">>), Bytes(<<"w","w","w">>), Bytes(<<"h","t","t","p","s">>), Bytes(<<"f","t","p">>), Bytes(<<"c","o","m",".">>), Bytes(<<"o","r","g",".">>), Bytes(<<".","a","p","p">>), Bytes(<<"p","l","i","s","t">>), Bytes(<<"x","m","l">>) }

ToLowercase(t) == [k \in 1..Len(t) |-> IF t[k] >= 65 /\ t[k] <= 90 THEN t[k] + 32 ELSE t[k]]

CountIf(t, P(_)) == Cardinality({k \in 1..Len(t) : P(t[k])})

\* every occurrence of needle in a layout
AllHits(segs, needle) ==
    LET cands == IF needle[1] \in FillBytes(segs)
                 THEN 0 .. (BufLen(segs) - Len(needle))
                 ELSE {i \in LitOffsets(segs, 0) : i + Len(needle) <= BufLen(segs)}
    IN  {i \in cands : Matches(segs, i, needle)}

AfterLastSlash(before) ==
    IF \E k \in 1..Len(before) : before[k] = 47
    THEN Some(SubSeq(before, MaxOf({k \in 1..Len(before) : before[k] = 47}) + 1,
                     Len(before)))
    ELSE None

\* the text before a ".app" at pos, back to the last '/' of the 100 bytes
\* before it: Option<bytes>
AppNameBefore(str, pos) ==
    AfterLastSlash(Slice(str, ContextStart(pos), pos - ContextStart(pos)))

IsAppName(app_name) ==
    /\ Len(app_name) > 2 /\ Len(app_name) < 100
    /\ CountIf(app_name, IsAsciiAlpha) >= 3
    /\ \A k \in 1..Len(app_name) :
          IsAlphanumeric(app_name[k]) \/ IsWhitespace(app_name[k])
            \/ app_name[k] \in {45, 95}
    /\ ToLowercase(app_name) \notin skip_names
    /\ ~StartsWith(ToLowercase(app_name), Bytes(<<"c","o","m",".">>))
    /\ ~StartsWith(ToLowercase(app_name), Bytes(<<"o","r","g",".">>))

\* what a function that may panic has made of meta: [panic, meta]
Running(meta) == [panic |-> FALSE, meta |-> meta]

Panicked(meta) == [panic |-> TRUE, meta |-> meta]

RECURSIVE AppLoop(_, _, _)

AppNamed(str, hits, pos, app_name, meta) ==
    IF app_name.some /\ IsAppName(app_name.s)
    THEN Running(InsertAll(meta,
             << <<"ProductName", Trim(app_name.s)>>,
                <<"ApplicationBundle", Trim(app_name.s) \o Bytes(<<".","a","p","p">>)>> >>))
    ELSE AppLoop(str, hits \ {pos}, meta)

AppAt(str, hits, pos, meta) ==
    IF ~IsCharBoundary(str, ContextStart(pos)) THEN Panicked(meta)
    ELSE AppNamed(str, hits, pos, AppNameBefore(str, pos), meta)

\* the loop over match_indices(".app"): [panic, meta]
AppLoop(str, hits, meta) ==
    IF hits = {} THEN Running(meta) ELSE AppAt(str, hits, MinOf(hits), meta)

SWEEP_LIMIT == 16384

\* the first offset >= i, below limit, whose byte is not printable
RECURSIVE SkipPrintable(_, _, _)
SkipPrintable(data, i, limit) ==
    IF i < limit /\ IsPrintable(ByteAt(data, i))
    THEN SkipPrintable(data, i + 1, limit) ELSE i

HasInstallerKeyword(t) == Contains(t, Bytes(<<"I","n","s","t","a","l","l","e","r">>)) \/ Contains(t, Bytes(<<"S","e","t","u","p">>))

IsSweepString(t) ==
    /\ \/ HasInstallerKeyword(t)
       \/ /\ CountIf(t, IsAsciiAlpha) > 3
          /\ \A k \in 1..Len(t) : IsAlphanumeric(t[k]) \/ IsWhitespace(t[k])
    /\ \A pat \in skip_patterns : ~Contains(ToLowercase(t), pat)

\* the offsets below limit at which a run of printable bytes starts
SweepStarts(data, limit) ==
    {i \in (IF \E b \in FillBytes(data) : IsPrintable(b)
            THEN 0 .. (limit - 1)
            ELSE {j \in LitOffsets(data, 0) : j < limit}) :
        IsPrintable(ByteAt(data, i)) /\ (i = 0 \/ ~IsPrintable(ByteAt(data, i - 1)))}

SweepRuns(data, limit) ==
    {[off |-> i, len |-> SkipPrintable(data, i, limit) - i] :
        i \in SweepStarts(data, limit)}

ValidRuns(data, limit) ==
    {r \in SweepRuns(data, limit) :
        r.off + r.len < limit /\ r.len >= 5 /\ r.len <= 100
          /\ IsSweepString(Slice(data, r.off, r.len))}

\* valid_strings of the printable sweep, as [off, len] in buffer order
SweepStrings(data) ==
    ValidRuns(data, IF BufLen(data) < SWEEP_LIMIT THEN BufLen(data) ELSE SWEEP_LIMIT)

\* the strings with an installer keyword when there are some, else all
Preferred(data, valid) ==
    IF \E r \in valid : HasInstallerKeyword(Slice(data, r.off, r.len))
    THEN {r \in valid : HasInstallerKeyword(Slice(data, r.off, r.len))}
    ELSE valid

FirstRun(pick) == CHOOSE r \in pick : \A q \in pick : r.off <= q.off

InsertRun(data, r, meta) == Insert(meta, "ProductName", Slice(data, r.off, r.len))

NameSwept(data, valid, meta) ==
    IF valid = {} THEN meta
    ELSE InsertRun(data, FirstRun(Preferred(data, valid)), meta)

SweepName(data, meta) == NameSwept(data, SweepStrings(data), meta)

Swept(data, looped) ==
    IF looped.panic \/ Has(looped.meta, "ProductName") THEN looped
    ELSE Running(SweepName(data, looped.meta))

AppNames(str, meta) == AppLoop(str, AllHits(str, Bytes(<<".","a","p","p">>)), meta)

\* [panic, meta]
extract_app_names(data, meta) == Swept(data, AppNames(Lossy(data), meta))

\* meta.insert(key, value) for every key of keys that meta does not hold
InsertMissing(meta, keys, value) == meta @@ [k \in keys |-> value]

Sanitized(meta, sanitized) ==
    IF sanitized = <<>> THEN meta
    ELSE InsertMissing(
             InsertMissing(Insert(meta, "ProductName", sanitized),
                           {"ProgramName"}, sanitized),
             {"FileDescription"}, sanitized \o Bytes(<<" ","I","n","s","t","a","l","l","e","r">>))

NameAliases(meta) ==
    IF Has(meta, "ProductName")
    THEN Sanitized(meta, sanitize_string(meta["ProductName"])) ELSE meta

CompanyAliases(meta) ==
    IF Has(meta, "CompanyName")
    THEN InsertMissing(meta, {"Vendor", "Publisher"}, meta["CompanyName"]) ELSE meta

VersionAliases(meta) ==
    IF Has(meta, "ProductVersion")
    THEN InsertMissing(meta, {"FileVersion", "FileVersionNumber", "ProductVersionNumber"},
                       meta["ProductVersion"])
    ELSE meta

\* the aliases without the default description
AliasesWithoutDefault(meta) ==
    VersionAliases(CompanyAliases(NameAliases(meta)))

create_field_aliases(meta) ==
    InsertMissing(VersionAliases(CompanyAliases(NameAliases(meta))),
                  {"FileDescription"}, Bytes(<<"A","p","p","l","e"," ","D","i","s","k"," ","I","m","a","g","e">>))

Aliased(st) == IF st.panic THEN st ELSE Running(create_field_aliases(st.meta))

ProductNamed(data, meta) ==
    IF Has(meta, "ProductName") THEN Running(meta) ELSE extract_app_names(data, meta)

\* the scans of the lossy string, which extract_product_info makes when the
\* plist gave no ProductName or no ProductVersion
Scanned(data, data_str, meta) ==
    IF DeveloperInfoPanics(data_str) THEN Panicked(meta)
    ELSE ProductNamed(data,
               extract_developer_info(data_str,
                   extract_bundle_info(data_str,
                       extract_version_strings(data_str,
                           extract_plist_info(data_str, meta)))))

Completed(data, meta) ==
    IF Has(meta, "ProductName") /\ Has(meta, "ProductVersion")
    THEN Running(create_field_aliases(meta))
    ELSE Aliased(Scanned(data, Lossy(data), meta))

Plisted(in, found, meta) ==
    IF found.panic THEN Panicked(meta)
    ELSE Completed(in.data,
                   IF found.some THEN parse_plist_properly(in, found.data, meta)
                   ELSE meta)

\* [panic, meta]
extract_product_info(in, meta) == Plisted(in, find_plist_in_dmg(in.data), meta)

Compression(data) ==
    IF Slice(data, 0, 2) \in DMG_PREFIX2 \ {<<31, 139>>} THEN Bytes(<<"z","l","i","b">>)
    ELSE IF Slice(data, 0, 2) = <<31, 139>> THEN Bytes(<<"g","z","i","p">>)
    ELSE IF Slice(data, 0, 4) \in {<<66, 90, 104, 57>>, <<66, 90, 104, 49>>}
    THEN Bytes(<<"b","z","i","p","2">>)
    ELSE IF ByteAt(data, 0) = 0 /\ ByteAt(data, 1) = 0 THEN Bytes(<<"u","n","c","o","m","p","r","e","s","s","e","d">>)
    ELSE Bytes(<<"u","n","k","n","o","w","n">>)

CompressionInfo(data, meta) ==
    IF BufLen(data) >= 4 THEN Insert(meta, "Compression", Compression(data)) ELSE meta

KolyInfo(data, koly_offset, meta) ==
    IF BufLen(data) >= 512 /\ HasKolyAtTrailer(data)
    THEN InsertAll(meta, << <<"HasKolySignature", Bytes(<<"t","r","u","e">>)>>,
                            <<"KolyOffset", Decimal(koly_offset)>>,
                            <<"DMGVersion", Decimal(U32BE(data, koly_offset + 4))>> >>)
    ELSE meta

\* a panic aborts the call; else Ok(meta)
Finished(product) ==
    IF product.panic THEN Panic("byte index is out of range or not a char boundary")
    ELSE Ok(product.meta)

parse_dmg_metadata(in) ==
    Finished(extract_product_info(in,
        Insert(KolyInfo(in.data, BufLen(in.data) - 512,
                   CompressionInfo(in.data,
                       InsertAll(EmptyMap, << <<"Format", Bytes(<<"D","M","G">>)>>,
                                              <<"Architecture", Bytes(<<"m","a","c","O","S"," ","D","i","s","k"," ","I","m","a","g","e">>)>> >>))),
               "ImageType", Bytes(<<"U","D","I","F">>))))

DMGAnalyzer_parse_metadata(in) == parse_dmg_metadata(in)

DMGAnalyzer_get_file_info(in) ==
    Insert(Insert(EmptyMap, "type", Bytes(<<"D","M","G"," ","(","A","p","p","l","e"," ","D","i","s","k"," ","I",
                    "m","a","g","e",")">>)),
           "size", Decimal(BufLen(in.data)))

----------------------------------------------------------------------------
(* MSI analyzer (msi.rs).                                                  *)
(* in.cfb is what the cfb crate makes of the buffer: open says whether     *)
(* CompoundFile::open succeeds (err is the Debug text of its error),       *)
(* rootOk whether read_storage("/") does, and entries are the entries of   *)
(* the root storage in order: name (code points), len, whether             *)
(* open_stream and read_to_end succeed, and the content read.              *)

MIN_METADATA_STRING_LEN == 3

MAX_METADATA_STRING_LEN == 100

decode_char(c) ==
    IF c <= 9 THEN 48 + c
    ELSE IF c <= 35 THEN 97 + (c - 10)
    ELSE IF c <= 61 THEN 65 + (c - 36)
    ELSE IF c = 62 THEN 95
    ELSE IF c = 63 THEN 46
    ELSE 32

\* the characters one character of a mangled name decodes to
DecodeOne(n) ==
    IF n >= 14336 /\ n < 18496
    THEN LET m == n - 14336
             char1 == m % 64
             char2 == (m \div 64) % 64
         IN  IF char2 # 0 THEN <<decode_char(char1), decode_char(char2)>>
             ELSE <<decode_char(char1)>>
    ELSE <<n>>

RECURSIVE DecodeAll(_)
DecodeAll(name) ==
    IF name = <<>> THEN <<>> ELSE DecodeOne(Head(name)) \o DecodeAll(Tail(name))

decode_msi_stream_name(name) ==
    IF name # <<>> /\ name[1] \in {33, 5} THEN name ELSE DecodeAll(name)

U16LE(buf, offset) == buf[offset + 1] + buf[offset + 2] * 256

U32LE(buf, offset) ==
    buf[offset + 1] + buf[offset + 2] * 256 + buf[offset + 3] * 65536
      + buf[offset + 4] * 16777216

get_u32(buf, offset) == IF offset + 4 > Len(buf) THEN 0 ELSE U32LE(buf, offset)

get_u16(buf, offset) == IF offset + 2 > Len(buf) THEN 0 ELSE U16LE(buf, offset)

\* one char as UTF-8
Utf8Char(n) ==
    IF n < 128 THEN <<n>>
    ELSE IF n < 2048 THEN <<192 + (n \div 64), 128 + (n % 64)>>
    ELSE IF n < 65536
         THEN <<224 + (n \div 4096), 128 + ((n \div 64) % 64), 128 + (n % 64)>>
    ELSE <<240 + (n \div 262144), 128 + ((n \div 4096) % 64),
           128 + ((n \div 64) % 64), 128 + (n % 64)>>

\* String::from_utf16_lossy of the little-endian code units of a byte
\* string (chunks_exact(2) drops an odd last byte)
RECURSIVE Utf16Lossy(_)
Utf16Lossy(b) ==
    IF Len(b) < 2 THEN <<>>
    ELSE LET u == U16LE(b, 0)
             rest == SubSeq(b, 3, Len(b))
             v == IF Len(rest) >= 2 THEN U16LE(rest, 0) ELSE 0
         IN  IF u < 55296 \/ u > 57343 THEN Utf8Char(u) \o Utf16Lossy(rest)
             ELSE IF u < 56320 /\ v >= 56320 /\ v <= 57343
                  THEN Utf8Char(65536 + (u - 55296) * 1024 + (v - 56320))
                         \o Utf16Lossy(SubSeq(rest, 3, Len(rest)))
             ELSE REPLACEMENT \o Utf16Lossy(rest)

\* the string of a pool entry of this length that begins at current_offset
PoolString(pool_data, string_data, current_offset, length) ==
    IF length = 0 \/ current_offset + length > Len(string_data) THEN <<>>
    ELSE IF U16LE(pool_data, 0) = 1200
    THEN Utf16Lossy(SubSeq(string_data, current_offset + 1, current_offset + length))
    ELSE LossyFrom(SubSeq(string_data, current_offset + 1, current_offset + length), 1)

RECURSIVE PoolStrings(_, _, _, _)

PoolEntry(pool_data, string_data, i, current_offset, length) ==
    <<PoolString(pool_data, string_data, current_offset, length)>>
      \o PoolStrings(pool_data, string_data, i + 1, current_offset + length)

\* the strings of MsiStringPool::from_streams from entry i on
PoolStrings(pool_data, string_data, i, current_offset) ==
    IF i >= (Len(pool_data) - 4) \div 4 THEN <<>>
    ELSE PoolEntry(pool_data, string_data, i, current_offset,
                   U16LE(pool_data, 4 + i * 4 + 2))

\* a pool that takes every index for two bytes wide
TwoByteIndices(pool_data, string_data) ==
    IF Len(pool_data) < 4 THEN [strings |-> <<>>, index_size |-> 2]
    ELSE [strings |-> PoolStrings(pool_data, string_data, 0, 0), index_size |-> 2]

\* MsiStringPool::from_streams
from_streams(pool_data, string_data) ==
    IF Len(pool_data) < 4 THEN [strings |-> <<>>, index_size |-> 2]
    ELSE [strings |-> PoolStrings(pool_data, string_data, 0, 0),
          index_size |-> IF U16LE(pool_data, 2) >= 32768 THEN 3 ELSE 2]

\* a lookup that takes the index for a position counted from 0
GetFromZero(pool, index) ==
    IF index >= Len(pool.strings) THEN None
    ELSE Some(pool.strings[index + 1])

\* MsiStringPool::get
get(pool, index) ==
    IF index = 0 \/ index > Len(pool.strings) THEN None
    ELSE Some(pool.strings[index])

read_idx(data, offset, size) ==
    IF Len(data) < offset + size THEN 0
    ELSE IF size = 2 THEN U16LE(data, offset)
    ELSE IF size = 3
         THEN data[offset + 1] + data[offset + 2] * 256 + data[offset + 3] * 65536
    ELSE 0

\* row k (from 0) of chunks_exact(row_size)
Row(data, row_size, k) == SubSeq(data, k * row_size + 1, (k + 1) * row_size)

\* what read_to_end leaves in the vector for the entries that decode to name
RECURSIVE ReadNamed(_, _)
ReadNamed(entries, name) ==
    IF entries = <<>> THEN <<>>
    ELSE LET e == Head(entries)
         IN  (IF decode_msi_stream_name(e.name) = name /\ e.streamOk
              THEN e.content ELSE <<>>)
             \o ReadNamed(Tail(entries), name)

\* str::trim_start_matches(c)
RECURSIVE TrimStartMatches(_, _)
TrimStartMatches(t, c) ==
    IF t # <<>> /\ t[1] = c THEN TrimStartMatches(Tail(t), c) ELSE t

\* str::trim_matches(c)
TrimMatches(t, c) == TrimEndMatches(TrimStartMatches(t, c), c)

\* what a row of the Property table inserts: <<key, value>>, or <<"", <<>>>>
\* when the row inserts nothing
PropertyPair(key, val) ==
    IF key.some /\ val.some /\ key.s # <<>> /\ val.s # <<>>
    THEN <<Str(key.s), val.s>> ELSE <<"", <<>>>>

PropertyRow(pool, row) ==
    PropertyPair(get(pool, read_idx(row, 0, pool.index_size)),
                 get(pool, read_idx(row, pool.index_size, pool.index_size)))

\* the loop over the rows of the Property table
PropertyRows(prop_data, pool, meta) ==
    InsertAll(meta,
        SelectSeq([k \in 1..(Len(prop_data) \div (pool.index_size * 2)) |->
                     PropertyRow(pool, Row(prop_data, pool.index_size * 2, k - 1))],
                  LAMBDA pair : pair[1] # ""))

\* total_size of the File table from row k on
RECURSIVE TotalSize(_, _, _)
TotalSize(file_data, idx_size, k) ==
    LET row_size == idx_size * 5 + 8
    IN  IF (k + 1) * row_size > Len(file_data) THEN 0
        ELSE U32LE(Row(file_data, row_size, k), idx_size * 3)
               + TotalSize(file_data, idx_size, k + 1)

\* conditions of the LaunchCondition table from row k on
RECURSIVE Conditions(_, _, _)
Conditions(lc_data, pool, k) ==
    LET idx_size == pool.index_size
        row_size == idx_size * 2
        val == get(pool, read_idx(Row(lc_data, row_size, k), idx_size, idx_size))
    IN  IF (k + 1) * row_size > Len(lc_data) THEN <<>>
        ELSE (IF val.some THEN <<val.s>> ELSE <<>>) \o Conditions(lc_data, pool, k + 1)

\* [String]::join(" | ")
RECURSIVE JoinBar(_)
JoinBar(words) ==
    IF words = <<>> THEN <<>>
    ELSE IF Len(words) = 1 THEN words[1]
    ELSE words[1] \o <<32, 124, 32>> \o JoinBar(Tail(words))

TableName(e) ==
    TrimStartMatches(TrimStartMatches(decode_msi_stream_name(e.name), 33), 5)

FileTable(e, idx_size, counted) ==
    IF e.streamOk /\ e.readOk
    THEN Insert(counted, "TotalFileSize", Decimal(TotalSize(e.content, idx_size, 0)))
    ELSE counted

LaunchConditions(conditions, meta) ==
    IF conditions # <<>> THEN Insert(meta, "LaunchConditions", JoinBar(conditions))
    ELSE meta

TableNamed(e, name, pool, meta) ==
    IF name = Bytes(<<"P","r","o","p","e","r","t","y">>)
    THEN IF e.streamOk /\ e.readOk THEN PropertyRows(e.content, pool, meta) ELSE meta
    ELSE IF name = Bytes(<<"F","i","l","e">>)
    THEN FileTable(e, pool.index_size,
             Insert(meta, "FileCount", Decimal(e.len \div (pool.index_size * 5 + 8))))
    ELSE IF name = Bytes(<<"C","o","m","p","o","n","e","n","t">>)
    THEN Insert(meta, "ComponentCount", Decimal(e.len \div (pool.index_size * 5 + 2)))
    ELSE IF name = Bytes(<<"F","e","a","t","u","r","e">>)
    THEN Insert(meta, "FeatureCount", Decimal(e.len \div (pool.index_size * 5 + 6)))
    ELSE IF name = Bytes(<<"L","a","u","n","c","h","C","o","n","d","i","t","i","o","n">>)
    THEN IF e.streamOk /\ e.readOk
         THEN LaunchConditions(Conditions(e.content, pool, 0), meta) ELSE meta
    ELSE meta

\* the match on the table name, for one storage entry
TableEntry(e, pool, meta) == TableNamed(e, TableName(e), pool, meta)

RECURSIVE TableLoop(_, _, _)
TableLoop(entries, pool, meta) ==
    IF entries = <<>> THEN meta
    ELSE TableLoop(Tail(entries), pool, TableEntry(Head(entries), pool, meta))

SummaryKey(pid) ==
    CASE pid = 2 -> "Title" [] pid = 3 -> "ProductName" [] pid = 4 -> "Manufacturer"
      [] pid = 5 -> "Keywords" [] pid = 6 -> "Comments" [] pid = 9 -> "PackageCode"

\* the VT_LPSTR (30) or VT_LPWSTR (31) value of count characters at str_start
OleText(buffer, prop_type, str_start, count) ==
    IF prop_type = 30 /\ str_start + count <= Len(buffer)
    THEN TrimMatches(LossyFrom(SubSeq(buffer, str_start + 1, str_start + count), 1), 0)
    ELSE IF prop_type = 31 /\ str_start + count * 2 <= Len(buffer)
    THEN TrimMatches(Utf16Lossy(SubSeq(buffer, str_start + 1, str_start + count * 2)), 0)
    ELSE <<>>

\* an insertion that lets every one of the six properties overwrite
InsertAlways(meta, pid, text) ==
    IF pid \notin {2, 3, 4, 5, 6, 9} \/ text = <<>> THEN meta
    ELSE Insert(meta, SummaryKey(pid), text)

OleInsert(meta, pid, text) ==
    IF pid \notin {2, 3, 4, 5, 6, 9} \/ text = <<>> THEN meta
    ELSE IF pid \in {2, 5, 6, 9} \/ ~Has(meta, SummaryKey(pid))
    THEN Insert(meta, SummaryKey(pid), text)
    ELSE meta

OleAt(buffer, pid, abs_prop_offset, meta) ==
    IF abs_prop_offset + 4 > Len(buffer) THEN meta
    ELSE OleInsert(meta, pid,
             OleText(buffer, get_u16(buffer, abs_prop_offset), abs_prop_offset + 8,
                     get_u32(buffer, abs_prop_offset + 4)))

OleEntry(buffer, section_offset, entry_offset, meta) ==
    OleAt(buffer, get_u32(buffer, entry_offset),
          section_offset + get_u32(buffer, entry_offset + 4), meta)

\* the body of the property loop of extract_ole_properties, for entry i
OleProperty(buffer, section_offset, i, meta) ==
    OleEntry(buffer, section_offset, section_offset + 8 + i * 8, meta)

RECURSIVE OleLoop(_, _, _, _, _)
OleLoop(buffer, section_offset, prop_count, i, meta) ==
    IF i >= prop_count \/ section_offset + 8 + i * 8 + 8 > Len(buffer) THEN meta
    ELSE OleLoop(buffer, section_offset, prop_count, i + 1,
                 OleProperty(buffer, section_offset, i, meta))

OleSection(buffer, section_offset, meta) ==
    IF section_offset + 8 > Len(buffer) THEN meta
    ELSE IF section_offset + get_u32(buffer, section_offset) > Len(buffer) THEN meta
    ELSE OleLoop(buffer, section_offset, get_u32(buffer, section_offset + 4), 0, meta)

extract_ole_properties(buffer, meta) ==
    IF Len(buffer) < 48 \/ get_u16(buffer, 0) # 65534 THEN meta
    ELSE IF get_u32(buffer, 24) = 0 THEN meta
    ELSE OleSection(buffer, get_u32(buffer, 44), meta)

SUMMARY_STREAM ==
    <<5>> \o Bytes(<<"S","u","m","m","a","r","y","I","n","f","o","r","m","a","t","i","o",
                    "n">>)

SummaryProperties(named, meta) ==
    IF named # <<>> /\ named[1].streamOk /\ named[1].readOk
    THEN extract_ole_properties(named[1].content, meta)
    ELSE meta

extract_summary_info_enhanced(cfb, meta) ==
    SummaryProperties(SelectSeq(cfb.entries, LAMBDA e : e.name = SUMMARY_STREAM), meta)

blacklist ==
    { Bytes(<<"I","n","s","t","a","l","l","a","t","i","o","n"," ","D","a","t","a",
                    "b","a","s","e">>),
      Bytes(<<"I","n","s","t","a","l","l","e","r"," ","D","a","t","a","b","a","s",
                    "e">>),
      Bytes(<<"W","i","n","d","o","w","s"," ","I","n","s","t","a","l","l","e","r">>),
      Bytes(<<"M","i","c","r","o","s","o","f","t"," ","C","o","r","p","o","r","a",
                    "t","i","o","n">>),
      Bytes(<<"M","s","i","E","x","e","c">>), Bytes(<<"P","r","o","p","e","r","t","y">>), Bytes(<<"F","e","a","t","u","r","e">>), Bytes(<<"C","o","m","p","o","n","e","n","t">>), Bytes(<<"D","i","r","e","c","t","o","r","y">>), Bytes(<<"R","e","g","i","s","t","r","y">>),
      Bytes(<<"A","d","m","i","n","E","x","e","c","u","t","e","S","e","q","u","e",
                    "n","c","e">>),
      Bytes(<<"I","n","s","t","a","l","l","E","x","e","c","u","t","e","S","e","q",
                    "u","e","n","c","e">>),
      Bytes(<<"P","r","o","d","u","c","t","C","o","d","e">>), Bytes(<<"U","p","g","r","a","d","e","C","o","d","e">>), Bytes(<<"T","A","R","G","E","T","D","I","R">>),
      Bytes(<<"P","r","o","g","r","a","m","F","i","l","e","s","F","o","l","d","e",
                    "r">>) }

is_valid_metadata_string(t) ==
    /\ Len(t) >= MIN_METADATA_STRING_LEN /\ Len(t) <= MAX_METADATA_STRING_LEN
    /\ \E k \in 1..Len(t) : IsAsciiAlpha(t[k])
    /\ \A blocked \in blacklist : ~Contains(t, blocked)
    /\ \A k \in 1..Len(t) :
          IsAlphanumeric(t[k]) \/ IsWhitespace(t[k])
            \/ t[k] \in {46, 45, 95, 44, 40, 41, 38, 39}

\* the bytes of search_area at which the for loop of extract_property_value
\* stops collecting: those that are not printable, and the backslash
Stops(search_area) ==
    {k \in 1..Len(search_area) : ~IsPrintable(search_area[k]) \/ search_area[k] = 92}

\* found_string when the loop comes to the stop k: the bytes since the stop
\* before it
FoundString(search_area, stops, k) ==
    SubSeq(search_area,
           IF \E j \in stops : j < k THEN MaxOf({j \in stops : j < k}) + 1 ELSE 1,
           k - 1)

FirstValid(search_area, stops, hits) ==
    IF hits = {} THEN None ELSE Some(FoundString(search_area, stops, MinOf(hits)))

Scan(search_area, stops) ==
    FirstValid(search_area, stops,
        {k \in stops : /\ Len(FoundString(search_area, stops, k)) >= 3
                       /\ is_valid_metadata_string(FoundString(search_area, stops, k))})

\* the for loop of extract_property_value: the first run of three bytes or
\* more, ended by a stop, that is a valid metadata string
PropertyScan(search_area) == Scan(search_area, Stops(search_area))

ValueAfter(buf, start) ==
    PropertyScan(Slice(buf, start,
        (IF start + 200 < BufLen(buf) THEN start + 200 ELSE BufLen(buf)) - start))

PropertyAt(buf, pos, property_name) ==
    IF pos < 0 THEN None ELSE ValueAfter(buf, pos + Len(property_name))

extract_property_value(buf, property_name) ==
    PropertyAt(buf, find_bytes(buf, property_name), property_name)

IsHexDigit(b) == IsAsciiDigit(b) \/ (b >= 65 /\ b <= 70) \/ (b >= 97 /\ b <= 102)

IsGuidAt(data, i) ==
    /\ ByteAt(data, i) = 123 /\ ByteAt(data, i + 37) = 125
    /\ \A d \in {9, 14, 19, 24} : ByteAt(data, i + d) = 45
    /\ \A d \in 0..37 :
          LET c == ByteAt(data, i + d) IN IsHexDigit(c) \/ c \in {123, 125, 45}

ToAsciiUppercase(c) == IF c >= 97 /\ c <= 122 THEN c - 32 ELSE c

FirstGuid(data, hits) ==
    IF hits = {} THEN None
    ELSE Some([k \in 1..38 |-> ToAsciiUppercase(ByteAt(data, MinOf(hits) + k - 1))])

\* the first i of 0..len-38 (exclusive) that holds a GUID: Option<String>
regex_like_guid_search(data) ==
    FirstGuid(data, {i \in AllHits(data, <<123>>) :
                       i + 38 < BufLen(data) /\ IsGuidAt(data, i)})

extract_guid(data, prefix) == regex_like_guid_search(data)

\* the while loop of extract_version_pattern: the end of the run of digits
\* and dots that starts at i, cut after 21 characters
RECURSIVE VersionEnd(_, _, _)
VersionEnd(bytes, i, j) ==
    IF j < BufLen(bytes) /\ (IsAsciiDigit(ByteAt(bytes, j)) \/ ByteAt(bytes, j) = 46)
       /\ j - i <= 20
    THEN VersionEnd(bytes, i, j + 1) ELSE j

\* decimal digit strings of one length, compared as numbers
RECURSIVE DigitsLeq(_, _)
DigitsLeq(a, b) ==
    IF a = <<>> THEN TRUE
    ELSE IF a[1] # b[1] THEN a[1] < b[1]
    ELSE DigitsLeq(Tail(a), Tail(b))

\* str::parse::<u32> of a string of digits succeeds
ParsesAsU32(part) ==
    LET digits == TrimStartMatches(part, 48)
    IN  part # <<>>
          /\ (Len(digits) < 10
                \/ (Len(digits) = 10
                      /\ DigitsLeq(digits, <<52, 50, 57, 52, 57, 54, 55, 50, 57, 53>>)))

IsVersion(version) ==
    LET parts == SplitOn(version, 46)
    IN  Len(parts) >= 2 /\ Len(parts) <= 4
          /\ \A k \in 1..Len(parts) : ParsesAsU32(parts[k])

\* the sort key (dots, !is_low_major) as one number
VersionKey(version) ==
    2 * (Len(SplitOn(version, 46)) - 1)
      + (IF StartsWith(version, <<51, 46>>) THEN 0 ELSE 1)

\* the digits and dots the while loop collects from offset i
VersionFrom(data, i) == Slice(data, i, VersionEnd(data, i, i) - i)

\* the offsets i with a digit, a dot and a digit
VersionStarts(data) ==
    {i \in (IF (48..57) \cap FillBytes(data) # {} THEN 0 .. (BufLen(data) - 6)
            ELSE {j \in LitOffsets(data, 0) : j + 5 < BufLen(data)}) :
        IsAsciiDigit(ByteAt(data, i)) /\ ByteAt(data, i + 1) = 46
          /\ IsAsciiDigit(ByteAt(data, i + 2))}

\* versions.pop() after the stable sort: of the versions with the greatest
\* key, the one found last
LastBest(data, versions) ==
    IF versions = {} THEN None
    ELSE Some(VersionFrom(data,
             CHOOSE i \in versions :
                 \A j \in versions :
                     \/ VersionKey(VersionFrom(data, j)) < VersionKey(VersionFrom(data, i))
                     \/ /\ VersionKey(VersionFrom(data, j))
                             = VersionKey(VersionFrom(data, i))
                        /\ j <= i))

extract_version_pattern(data) ==
    LastBest(data, {i \in VersionStarts(data) : IsVersion(VersionFrom(data, i))})

ContainsText(str, needle) == find_bytes(str, needle) >= 0

VersionFallback(buf_str, meta) ==
    IF Has(meta, "ProductVersion") THEN meta
    ELSE InsertSome(meta, "ProductVersion", extract_version_pattern(buf_str))

\* if !meta.contains_key(key) { extract_property_value(buf, key) ... }
PropertyFallback(buf, key, property_name, meta) ==
    IF Has(meta, key) THEN meta
    ELSE InsertSome(meta, key, extract_property_value(buf, property_name))

InstallerFramework(buf_str, meta) ==
    IF ContainsText(buf_str, Bytes(<<"W","i","x","T","o","o","l","s","e","t">>)) \/ ContainsText(buf_str, Bytes(<<"W","i","n","d","o","w","s"," ","I","n","s","t","a","l","l","e","r"," ","X","M","L">>))
    THEN Insert(meta, "InstallerFramework", Bytes(<<"W","i","X"," ","T","o","o","l","s","e","t">>))
    ELSE IF ContainsText(buf_str, Bytes(<<"I","n","s","t","a","l","l","S","h","i","e","l","d">>))
    THEN Insert(meta, "InstallerFramework", Bytes(<<"I","n","s","t","a","l","l","S","h","i","e","l","d">>))
    ELSE IF ContainsText(buf_str, Bytes(<<"A","d","v","a","n","c","e","d"," ","I","n","s","t","a","l","l","e","r">>))
    THEN Insert(meta, "InstallerFramework", Bytes(<<"A","d","v","a","n","c","e","d"," ","I","n","s","t","a","l","l","e","r">>))
    ELSE meta

Heuristics(buf, buf_str, meta) ==
    InstallerFramework(buf_str,
      PropertyFallback(buf, "ProductName", Bytes(<<"P","r","o","d","u","c","t","N","a","m","e">>),
        PropertyFallback(buf, "Manufacturer", Bytes(<<"M","a","n","u","f","a","c","t","u","r","e","r">>),
          VersionFallback(buf_str,
            InsertSome(InsertSome(meta, "ProductCode", extract_guid(buf_str, "ProductCode")),
                       "UpgradeCode", extract_guid(buf_str, "UpgradeCode"))))))

extract_msi_properties(buf, meta) == Heuristics(buf, Lossy(buf), meta)

\* string_pool and the tables read with it
ReadTables(entries, pool_data, data_data, meta) ==
    IF pool_data # <<>> /\ data_data # <<>>
    THEN TableLoop(entries, from_streams(pool_data, data_data), meta)
    ELSE meta

Fallbacks(buf, meta) ==
    IF ~Has(meta, "ProductName") \/ ~Has(meta, "ProductVersion")
    THEN extract_msi_properties(buf, meta)
    ELSE meta

Storage(buf, cfb, meta) ==
    IF ~cfb.rootOk THEN extract_msi_properties(buf, meta)
    ELSE Fallbacks(buf,
             extract_summary_info_enhanced(cfb,
                 ReadTables(cfb.entries, ReadNamed(cfb.entries, Bytes(<<"!","S","t","r","i","n","g","P","o","o","l">>)),
                        ReadNamed(cfb.entries, Bytes(<<"!","S","t","r","i","n","g","D","a","t","a">>)), meta)))

\* an analyzer that reports the failure to open the compound file
OpenOrFail(buf, cfb) ==
    IF ~cfb.open THEN Err("Failed to open compound file")
    ELSE Ok(Storage(buf, cfb, Insert(EmptyMap, "Format", Bytes(<<"M","S","I">>))))

\* buf is the layout the analyzer is given and cfb what the cfb crate makes
\* of it (the embedded-MSI path of pe.rs hands over a tail of the buffer)
parse_msi_metadata(buf, cfb) ==
    IF ~cfb.open
    THEN Ok(Insert(extract_msi_properties(buf, Insert(EmptyMap, "Format", Bytes(<<"M","S","I">>))),
                   "CompoundFileError", cfb.err))
    ELSE Ok(Storage(buf, cfb, Insert(EmptyMap, "Format", Bytes(<<"M","S","I">>))))

MSIAnalyzer_parse_metadata(in) == parse_msi_metadata(in.data, in.cfb)

MSIAnalyzer_get_file_info(in) == Insert(EmptyMap, "Format", Bytes(<<"M","S","I">>))

----------------------------------------------------------------------------
(* PE analyzer (pe.rs).                                                    *)
(* in.pe is what goblin and pelite make of the buffer: is_64, whether      *)
(* PeFile32/PeFile64::from_bytes succeeds (image), the header fields, the  *)
(* resources and the version info with its translations and strings; and   *)
(* embedded is what the cfb crate makes of the tail of the buffer that     *)
(* starts at the first OLE signature.                                      *)

installer_marks ==
    << [type |-> Bytes(<<"I","n","n","o"," ","S","e","t","u","p">>),
        marks |-> {Bytes(<<"I","n","n","o"," ","S","e","t","u","p">>),
                   Bytes(<<"I","n","n","o","S","e","t","u","p","V","e","r","s","i","o","n">>)}],
       [type |-> Bytes(<<"N","S","I","S"," ","(","N","u","l","l","s","o","f","t",")">>),
        marks |-> {Bytes(<<"N","u","l","l","s","o","f","t"," ","I","n","s","t","a","l","l"," ",
                    "S","y","s","t","e","m">>),
                   Bytes(<<"N","S","I","S",".","H","e","a","d","e","r">>)}],
       [type |-> Bytes(<<"I","n","s","t","a","l","l","S","h","i","e","l","d">>),
        marks |-> {Bytes(<<"W","i","n","d","o","w","s"," ","I","n","s","t","a","l","l","e","r">>),
                   Bytes(<<"I","n","s","t","a","l","l","S","h","i","e","l","d">>)}],
       [type |-> Bytes(<<"W","i","X"," ","T","o","o","l","s","e","t">>),
        marks |-> {Bytes(<<"W","i","X"," ","T","o","o","l","s","e","t">>),
                   Bytes(<<"W","i","n","d","o","w","s"," ","I","n","s","t","a","l","l","e","r",
                    " ","X","M","L">>)}],
       [type |-> Bytes(<<"W","i","s","e"," ","I","n","s","t","a","l","l","e","r">>),
        marks |-> {Bytes(<<"W","i","s","e"," ","I","n","s","t","a","l","l","a","t","i","o","n",
                    " ","S","y","s","t","e","m">>)}],
       [type |-> Bytes(<<"S","e","t","u","p"," ","F","a","c","t","o","r","y">>),
        marks |-> {Bytes(<<"S","e","t","u","p"," ","F","a","c","t","o","r","y">>)}],
       [type |-> Bytes(<<"S","m","a","r","t"," ","I","n","s","t","a","l","l"," ","M","a","k",
                    "e","r">>),
        marks |-> {Bytes(<<"S","m","a","r","t"," ","I","n","s","t","a","l","l"," ","M","a","k",
                    "e","r">>)}] >>

\* the if / else if chain of detect_installer_type from branch k on
RECURSIVE InstallerType(_, _, _)
InstallerType(buf_str, k, meta) ==
    IF k > Len(installer_marks) THEN meta
    ELSE IF \E mark \in installer_marks[k].marks : ContainsText(buf_str, mark)
         THEN Insert(meta, "InstallerType", installer_marks[k].type)
    ELSE InstallerType(buf_str, k + 1, meta)

msi_fields ==
    << <<"ProductName", "ProductName">>, <<"Manufacturer", "CompanyName">>,
       <<"Manufacturer", "Publisher">>, <<"ProductVersion", "Version">> >>

MsiField(meta, pe_key, value) ==
    Insert(Insert(meta, pe_key \o "FromEmbeddedMSI", value),
           pe_key, value \o Bytes(<<" ","(","f","r","o","m"," ","e","m","b","e","d","d","e","d"," ","M","S","I",")">>))

RECURSIVE MsiFieldsLoop(_, _, _)
MsiFieldsLoop(msi_meta, k, meta) ==
    IF k > Len(msi_fields) THEN meta
    ELSE MsiFieldsLoop(msi_meta, k + 1,
             IF Has(msi_meta, msi_fields[k][1]) /\ ~Has(meta, msi_fields[k][2])
             THEN MsiField(meta, msi_fields[k][2], msi_meta[msi_fields[k][1]])
             ELSE meta)

EmbeddedFields(msi_meta, meta) ==
    IF msi_meta.kind = "ok" THEN MsiFieldsLoop(msi_meta.map, 1, meta) ELSE meta

extract_embedded_msi_metadata(in, msi_offset, meta) ==
    IF msi_offset >= BufLen(in.data) THEN meta
    ELSE EmbeddedFields(parse_msi_metadata(DropBytes(in.data, msi_offset), in.pe.embedded),
                        meta)

signature_patterns == << Bytes(<<"O","=">>), Bytes(<<"C","N","=">>) >>

\* the length of the text that starts the candidate
RECURSIVE TextEnd(_, _)
TextEnd(candidate, i) ==
    IF i < Len(candidate) /\ candidate[i + 1] # 44 /\ IsPrintable(candidate[i + 1])
    THEN TextEnd(candidate, i + 1) ELSE i

ValidName(name) ==
    IF Len(name) >= 3 /\ Len(name) < 100
         /\ (\E k \in 1..Len(name) : IsAsciiAlpha(name[k]))
         /\ \A k \in 1..Len(name) :
               IsAlphanumeric(name[k]) \/ IsWhitespace(name[k])
                 \/ name[k] \in {46, 45, 44, 38}
    THEN Some(name) ELSE None

NameOf(candidate, text_end) ==
    IF text_end < 3 THEN None ELSE ValidName(Trim(SubSeq(candidate, 1, text_end)))

Candidate(candidate) == NameOf(candidate, TextEnd(candidate, 0))

NameFrom(buf, start) ==
    IF start >= BufLen(buf) THEN None
    ELSE Candidate(Slice(buf, start,
             (IF start + 100 < BufLen(buf) THEN start + 100 ELSE BufLen(buf)) - start))

NameAt(buf, pos, pattern) == IF pos < 0 THEN None ELSE NameFrom(buf, pos + Len(pattern))

\* the name a pattern yields, if any: Option<bytes>
SignatureName(buf, pattern) == NameAt(buf, find_bytes(buf, pattern), pattern)

Signed(meta, name) ==
    IF ~Has(meta, "CompanyName")
    THEN InsertAll(meta, << <<"SignedBy", name>>, <<"CompanyName", name>>,
                            <<"Publisher", name>> >>)
    ELSE Insert(meta, "SignedBy", name)

RECURSIVE SignatureLoop(_, _, _)

SignatureFound(buf, k, meta, name) ==
    IF ~name.some THEN SignatureLoop(buf, k + 1, meta) ELSE Signed(meta, name.s)

SignatureLoop(buf, k, meta) ==
    IF k > Len(signature_patterns) THEN meta
    ELSE SignatureFound(buf, k, meta, SignatureName(buf, signature_patterns[k]))

extract_signature_info(buf, meta) == SignatureLoop(buf, 1, meta)

Embedded(in, pos, meta) ==
    IF pos >= 0
    THEN extract_embedded_msi_metadata(in, pos,
             Insert(Insert(meta, "EmbeddedMSI", Bytes(<<"t","r","u","e">>)), "MSIOffset", Decimal(pos)))
    ELSE meta

detect_installer_type(in, meta) ==
    extract_signature_info(in.data,
        Embedded(in, find_bytes(in.data, MSI_SIGNATURE),
                 InstallerType(Lossy(in.data), 1, meta)))

RECURSIVE HexDigits(_)
HexDigits(n) ==
    LET d == n % 16
        c == IF d < 10 THEN 48 + d ELSE 55 + d
    IN  IF n < 16 THEN <<c>> ELSE HexDigits(n \div 16) \o <<c>>

\* format!("0x{:0wX}", n)
Hex(n, w) ==
    LET digits == HexDigits(n)
    IN  <<48, 120>> \o [k \in 1..(w - Len(digits)) |-> 48] \o digits

\* format!("{}.{}.{}.{}", Major, Minor, Patch, Build)
Dotted(v) ==
    Decimal(v[1]) \o <<46>> \o Decimal(v[2]) \o <<46>> \o Decimal(v[3]) \o <<46>>
      \o Decimal(v[4])

FixedInfo(fixed, meta) ==
    IF ~fixed.some THEN meta
    ELSE InsertAll(meta,
             << <<"FileVersionNumber", Dotted(fixed.dwFileVersion)>>,
                <<"ProductVersionNumber", Dotted(fixed.dwProductVersion)>>,
                <<"FileFlags", Hex(fixed.dwFileFlags, 8)>>,
                <<"FileOS", Hex(fixed.dwFileOS, 8)>>,
                <<"FileType", Hex(fixed.dwFileType, 8)>> >>)

\* the callback of ver.strings over the strings of translation idx: every
\* string is put in meta under its Debug_ key, and every string with a
\* value in all_strings under its own; st is [meta, all_strings]
StringsLoop(strings, idx, st) ==
    LET Named(k) == <<Str(strings[k].key), strings[k].value>>
        valued == SelectSeq([k \in 1..Len(strings) |-> Named(k)],
                            LAMBDA kv : kv[2] # <<>>)
    IN  [meta |-> InsertAll(st.meta,
                     [k \in 1..Len(strings) |->
                        <<"Debug_" \o Str(Decimal(idx)) \o "_" \o Named(k)[1],
                          Named(k)[2]>>]),
         all_strings |-> InsertAll(st.all_strings, valued)]

Counted(read, idx, count, total) ==
    [meta |-> Insert(read.meta, "StringsInTranslation_" \o Str(Decimal(idx)),
                     Decimal(count)),
     all_strings |-> read.all_strings,
     total |-> total + count]

TranslationRead(lang, idx, st) ==
    Counted(StringsLoop(lang.strings, idx,
                [meta |-> Insert(st.meta, "Translation_" \o Str(Decimal(idx)), lang.debug),
                 all_strings |-> st.all_strings]),
            idx, Len(lang.strings), st.total)

\* the loop over translations from index idx on; st is [meta, all_strings, total]
RECURSIVE TranslationsLoop(_, _, _)
TranslationsLoop(translations, idx, st) ==
    IF idx >= Len(translations) THEN st
    ELSE TranslationsLoop(translations, idx + 1,
                          TranslationRead(translations[idx + 1], idx, st))

\* all_strings as the version info of a view fills it
AllStrings(pe) ==
    TranslationsLoop(pe.version.translations, 0,
                     [meta |-> EmptyMap, all_strings |-> EmptyMap, total |-> 0]).all_strings

\* the orders in which a HashMap with these keys may be iterated
Orders(keys) ==
    {ord \in [1..Cardinality(keys) -> keys] :
        \A i, j \in 1..Cardinality(keys) : i # j => ord[i] # ord[j]}

StringEntry(meta, key, value) ==
    IF key = "FileDescription"
    THEN Insert(Insert(meta, key, value), "ProgramName", value)
    ELSE IF key = "CompanyName"
    THEN InsertAll(meta, << <<key, value>>, <<"Vendor", value>>, <<"Publisher", value>> >>)
    ELSE IF key = "ProductVersion"
    THEN Insert(Insert(meta, key, value), "Version", value)
    ELSE Insert(meta, key, value)

\* for (key, value) in all_strings.iter(), in the order ord, from k on
RECURSIVE AllStringsLoop(_, _, _, _)
AllStringsLoop(all_strings, ord, k, meta) ==
    IF k > Len(ord) THEN meta
    ELSE AllStringsLoop(all_strings, ord, k + 1,
                        StringEntry(meta, ord[k], all_strings[ord[k]]))

FromSignature(meta, key) ==
    IF Has(meta, key)
    THEN Insert(meta, key, meta[key] \o Bytes(<<" ","(","f","r","o","m"," ","d","i","g","i","t","a","l"," ","s","i",
                    "g","n","a","t","u","r","e",")">>))
    ELSE meta

\* a suffix that marks CompanyName alone
SuffixCompanyOnly(meta) ==
    IF Has(meta, "CompanyName") /\ Has(meta, "SignedBy")
       /\ ~Contains(meta["CompanyName"], Bytes(<<"f","r","o","m"," ","d","i","g","i","t","a","l"," ","s","i","g","n","a","t","u","r","e">>))
    THEN FromSignature(meta, "CompanyName")
    ELSE meta

SignatureSuffix(meta) ==
    IF Has(meta, "CompanyName") /\ Has(meta, "SignedBy")
       /\ ~Contains(meta["CompanyName"], Bytes(<<"f","r","o","m"," ","d","i","g","i","t","a","l"," ","s","i","g","n","a","t","u","r","e">>))
    THEN FromSignature(FromSignature(FromSignature(meta, "CompanyName"),
                                     "Publisher"), "Vendor")
    ELSE meta

NoStrings(meta) == SignatureSuffix(Insert(meta, "NoStringsFound", Bytes(<<"t","r","u","e">>)))

Totals(st) ==
    Insert(Insert(st.meta, "TotalCallbackCalls", Decimal(st.total)),
           "StringsCount", Decimal(Cardinality(DOMAIN st.all_strings)))

StringsRead(st, ord) ==
    IF DOMAIN st.all_strings # {}
    THEN AllStringsLoop(st.all_strings, ord, 1, Totals(st))
    ELSE NoStrings(Totals(st))

VersionInfo(ver, meta, ord) ==
    StringsRead(
        TranslationsLoop(ver.translations, 0,
            [meta |-> Insert(FixedInfo(ver.fixed, Insert(meta, "HasVersionInfo", Bytes(<<"t","r","u","e">>))),
                             "TranslationCount", Decimal(Len(ver.translations))),
             all_strings |-> EmptyMap, total |-> 0]),
        ord)

Timestamp(header, meta) ==
    IF header.TimeDateStamp > 0
    THEN Insert(meta, "Timestamp", Decimal(header.TimeDateStamp)) ELSE meta

CoffHeader(header, meta) ==
    Timestamp(header,
        InsertAll(meta,
            << <<"Machine", Hex(header.Machine, 4)>>,
               <<"NumberOfSections", Decimal(header.NumberOfSections)>>,
               <<"SizeOfOptionalHeader", Decimal(header.SizeOfOptionalHeader)>>,
               <<"Characteristics", Hex(header.Characteristics, 4)>>,
               <<"PointerToSymbolTable", Decimal(header.PointerToSymbolTable)>>,
               <<"NumberOfSymbols", Decimal(header.NumberOfSymbols)>> >>))

OptionalHeader(optional, w, meta) ==
    InsertAll(meta,
        << <<"EntryPoint", Hex(optional.AddressOfEntryPoint, 8)>>,
           <<"ImageBase", Hex(optional.ImageBase, w)>>,
           <<"SizeOfImage", Decimal(optional.SizeOfImage)>>,
           <<"Subsystem", Decimal(optional.Subsystem)>>,
           <<"DllCharacteristics", Hex(optional.DllCharacteristics, 4)>> >>)

Resources(pe, meta, ord) ==
    IF ~pe.resources.ok THEN Insert(meta, "ResourcesError", pe.resources.err)
    ELSE IF ~pe.version.ok
    THEN Insert(Insert(meta, "HasResources", Bytes(<<"t","r","u","e">>)), "VersionInfoError", pe.version.err)
    ELSE VersionInfo(pe.version, Insert(meta, "HasResources", Bytes(<<"t","r","u","e">>)), ord)

\* extract_pe32_metadata and extract_pe64_metadata differ in the width w of
\* the ImageBase they print
ExtractImage(pe, w, meta, ord) ==
    IF ~pe.image THEN meta
    ELSE Resources(pe, OptionalHeader(pe.optional, w, CoffHeader(pe.header, meta)), ord)

extract_pe32_metadata(in, meta, ord) == ExtractImage(in.pe, 8, meta, ord)

extract_pe64_metadata(in, meta, ord) == ExtractImage(in.pe, 16, meta, ord)

Architecture(in, meta, ord) ==
    IF in.pe.is_64
    THEN Ok(extract_pe64_metadata(in, Insert(meta, "Architecture", Bytes(<<"x","6","4">>)), ord))
    ELSE Ok(extract_pe32_metadata(in, Insert(meta, "Architecture", Bytes(<<"x","8","6">>)), ord))

parse_pe_metadata(in, ord) ==
    Architecture(in, detect_installer_type(in, Insert(EmptyMap, "Format", Bytes(<<"P","E">>))), ord)

PEAnalyzer_parse_metadata(in, ord) ==
    IF in.pe.kind # "PE" THEN Err("Failed to parse PE file: " \o in.pe.err)
    ELSE parse_pe_metadata(in, ord)

PEAnalyzer_get_file_info(in) ==
    Insert(Insert(EmptyMap, "type", Bytes(<<"P","E"," ","(","W","i","n","d","o","w","s"," ","E","x","e","c","u",
                    "t","a","b","l","e",")">>)),
           "size", Decimal(BufLen(in.data)))

----------------------------------------------------------------------------
(* The dispatcher and the exported functions (lib.rs).                     *)
(* in.pe.kind is what goblin's Object::parse makes of the buffer: "PE",    *)
(* "Other" (any other Object, Unknown included) or "Err" (err its text).   *)

\* a dispatcher that asks the DMG sniffer before the MSI sniffer
DmgFirst(in, ord) ==
    IF is_dmg_file(in) THEN DMGAnalyzer_parse_metadata(in)
    ELSE IF is_msi_file(in) THEN MSIAnalyzer_parse_metadata(in)
    ELSE IF is_deb_file(in) THEN DEBAnalyzer_parse_metadata(in)
    ELSE IF is_rpm_file(in) THEN RPMAnalyzer_parse_metadata(in)
    ELSE IF in.pe.kind = "Err" THEN Err("Failed to parse file: " \o in.pe.err)
    ELSE IF in.pe.kind = "PE" THEN PEAnalyzer_parse_metadata(in, ord)
    ELSE Err("Unsupported file format. Supported formats: PE, MSI, DMG, DEB, RPM.")

parse_metadata(in, ord) ==
    IF is_msi_file(in) THEN MSIAnalyzer_parse_metadata(in)
    ELSE IF is_dmg_file(in) THEN DMGAnalyzer_parse_metadata(in)
    ELSE IF is_deb_file(in) THEN DEBAnalyzer_parse_metadata(in)
    ELSE IF is_rpm_file(in) THEN RPMAnalyzer_parse_metadata(in)
    ELSE IF in.pe.kind = "Err" THEN Err("Failed to parse file: " \o in.pe.err)
    ELSE IF in.pe.kind = "PE" THEN PEAnalyzer_parse_metadata(in, ord)
    ELSE Err("Unsupported file format. Supported formats: PE, MSI, DMG, DEB, RPM.")

\* the String analyze_file returns, as the JSON object it serialises (map)
\* or the error it reports (err)
Serialized(result) ==
    IF result.kind = "ok" THEN [result EXCEPT !.map = ToJson(result.map)]
    ELSE result

analyze_file(in, ord) == Serialized(parse_metadata(in, ord))

analyze_pe_file(in, ord) == analyze_file(in, ord)

Sniffed(in) ==
    IF is_msi_file(in) THEN MSIAnalyzer_get_file_info(in)
    ELSE IF is_dmg_file(in) THEN DMGAnalyzer_get_file_info(in)
    ELSE IF is_deb_file(in) THEN DEBAnalyzer_get_file_info(in)
    ELSE IF is_rpm_file(in) THEN RPMAnalyzer_get_file_info(in)
    ELSE IF in.pe.kind = "PE" THEN PEAnalyzer_get_file_info(in)
    ELSE IF in.pe.kind = "Other" THEN Insert(EmptyMap, "Format", Bytes(<<"U","n","s","u","p","p","o","r","t","e","d">>))
    ELSE Insert(EmptyMap, "Format", Bytes(<<"I","n","v","a","l","i","d"," ","b","i","n","a","r","y">>))

\* an info that leaves out the insert of Size
InfoWithoutSize(in) == Ok(ToJson(Sniffed(in)))

get_file_info(in) == Ok(ToJson(Insert(Sniffed(in), "Size", Decimal(BufLen(in.data)))))

----------------------------------------------------------------------------
(* Buffers.  A buffer is given as its bytes (a layout of literal and       *)
(* filler segments) and, beside them, what the external crates make of     *)
(* those bytes.                                                            *)

NoAr == [members |-> <<>>]

NoTar == [entriesOk |-> FALSE, entries |-> <<>>]

NoPlist == [text |-> <<>>, dict |-> EmptyMap]

NoCfb ==
    [open |-> FALSE, err |-> Bytes(<<"C","u","s","t","o","m"," ","{"," ","k","i","n","d",":"," ","I","n",
                    "v","a","l","i","d","D","a","t","a",","," ","e","r","r","o","r",":",
                    " ","\"","I","n","v","a","l","i","d"," ","C","F","B"," ","f","i",
                    "l","e","\""," ","}">>),
     rootOk |-> FALSE, entries |-> <<>>]

NoFixed ==
    [some |-> FALSE, dwFileVersion |-> <<0, 0, 0, 0>>, dwProductVersion |-> <<0, 0, 0, 0>>,
     dwFileFlags |-> 0, dwFileOS |-> 0, dwFileType |-> 0]

\* what goblin makes of a buffer that is no PE image
NoPe(kind, err) ==
    [kind |-> kind, err |-> err, is_64 |-> FALSE, image |-> FALSE,
     header |-> [Machine |-> 0, NumberOfSections |-> 0, SizeOfOptionalHeader |-> 0,
                 Characteristics |-> 0, PointerToSymbolTable |-> 0,
                 NumberOfSymbols |-> 0, TimeDateStamp |-> 0],
     optional |-> [AddressOfEntryPoint |-> 0, ImageBase |-> 0, SizeOfImage |-> 0,
                   Subsystem |-> 0, DllCharacteristics |-> 0],
     resources |-> [ok |-> FALSE, err |-> <<>>],
     version |-> [ok |-> FALSE, err |-> <<>>, fixed |-> NoFixed, translations |-> <<>>],
     embedded |-> NoCfb]

\* a buffer no crate makes anything of
Plain(data, kind, err) ==
    [data |-> data, ar |-> NoAr, tar |-> NoTar, plist |-> NoPlist, cfb |-> NoCfb,
     pe |-> NoPe(kind, err)]

\* goblin reads a 16-byte hint before anything else
Short(bytes) == Plain(<<Lit(bytes)>>, "Err", "Malformed entity: Object is too small.")

Unknown(data) == Plain(data, "Other", "")

ShortBuffers ==
    << Plain(<<>>, "Err", "Malformed entity: Object is too small."),
       Short(<<0>>),
       Short(Bytes(<<"M","Z">>)),
       Short(<<237, 171, 238>>),
       Short(RPM_LEAD_MAGIC),
       Short(RPM_LEAD_MAGIC \o <<3, 0>>),
       Short(RPM_LEAD_MAGIC \o <<3, 0, 0>>),
       Short(SubSeq(MSI_SIGNATURE, 1, 7)),
       Short(SubSeq(AR_GLOBAL_HEADER, 1, 7)),
       Short(Bytes(<<"k","o","l","y">>)),
       Short(<<120, 156, 0, 0, 1>>),
       Short(MSI_SIGNATURE \o <<0, 0, 0, 0>>),
       Short(RPM_HEADER_MAGIC \o <<0, 0, 0, 0>>) >>

UnknownBuffers ==
    << Unknown(<<Fill(0, 64)>>),
       Unknown(<<Lit(<<127>> \o Bytes(<<"E","L","F">>)), Fill(0, 60)>>),
       Unknown(<<Lit(Bytes(<<"h","e","l","l","o",","," ","w","o","r","l","d">>)), Fill(32, 20)>>),
       Unknown(<<Fill(255, 600)>>),
       Unknown(<<Lit(<<120, 156>>), Fill(0, 598)>>),
       Unknown(<<Lit(<<66, 90, 104, 57>>), Fill(0, 508), Lit(Bytes(<<"k","o","l","y">>))>>),
       Unknown(<<Lit(Bytes(<<"k","o","l","y">>)), Fill(0, 600)>>),
       Plain(<<Lit(Bytes(<<"M","Z">>)), Fill(0, 62)>>, "Err",
             "Malformed entity: bad PE signature") >>

\* one index entry of an RPM header structure: tag, type 6 (string), offset, count 1
RpmEntry(tag, offset) ==
    <<0, 0, tag \div 256, tag % 256, 0, 0, 0, 6, 0, 0, 0, offset, 0, 0, 0, 1>>

\* the 16 bytes that open a header structure
RpmIntro(index_count, store_size) ==
    RPM_HEADER_MAGIC \o <<0, 0, 0, 0, 0, 0, 0, index_count, 0, 0, 0, store_size>>

\* lead, empty signature header, and a header with the given index and store
Rpm(index, store) ==
    Plain(<<Lit(RPM_LEAD_MAGIC \o <<3, 0, 0, 0>>), Fill(0, 88), Lit(RpmIntro(0, 0)),
            Lit(RpmIntro(Len(index) \div 16, Len(store)) \o index \o store)>>,
          "Other", "")

\* lead, empty signature header, and a header that declares index_count and
\* store_size by their four bytes, whatever follows it
RpmDeclared(index_count, store_size, rest) ==
    Plain(<<Lit(RPM_LEAD_MAGIC \o <<3, 0, 0, 0>>), Fill(0, 88), Lit(RpmIntro(0, 0)),
            Lit(RPM_HEADER_MAGIC \o <<0, 0, 0, 0>> \o index_count \o store_size \o rest)>>,
          "Other", "")

\* lead, a Signature Header with the given index and store, padded to a
\* multiple of 8 bytes, and a header with the given index and store
RpmSigned(sig_index, sig_store, index, store) ==
    Plain(<<Lit(RPM_LEAD_MAGIC \o <<3, 0, 0, 0>>), Fill(0, 88),
            Lit(RpmIntro(Len(sig_index) \div 16, Len(sig_store)) \o sig_index \o sig_store),
            Fill(0, (8 - ((Len(sig_index) + Len(sig_store)) % 8)) % 8),
            Lit(RpmIntro(Len(index) \div 16, Len(store)) \o index \o store)>>,
          "Other", "")

RpmBuffers ==
    << Rpm(RpmEntry(1000, 0) \o RpmEntry(1001, 4) \o RpmEntry(1011, 8),
           Bytes(<<"f","o","o">>) \o <<0>> \o Bytes(<<"1",".","0">>) \o <<0>> \o Bytes(<<"A","c","m","e">>) \o <<0>>),
       Rpm(RpmEntry(1001, 0), Bytes(<<"1",".","0">>) \o <<0>>),
       Rpm(RpmEntry(1000, 0), Bytes(<<"f","o","o">>) \o <<0>>),
       Rpm(RpmEntry(1011, 0) \o RpmEntry(999, 0), Bytes(<<"A","c","m","e">>) \o <<0>>),
       Rpm(RpmEntry(1000, 0) \o RpmEntry(1004, 9), Bytes(<<"f","o","o">>) \o <<0>>),
       Rpm(RpmEntry(1000, 0), <<255, 254, 0>>),
       Rpm(<<>>, <<>>),
       Unknown(<<Lit(RPM_LEAD_MAGIC \o <<3, 0, 0, 0>>), Fill(0, 88)>>),
       Unknown(<<Lit(RPM_LEAD_MAGIC \o <<3, 0, 0, 0>>), Fill(0, 88), Fill(0, 16)>>),
       Unknown(<<Lit(RPM_LEAD_MAGIC \o <<3, 0, 0, 0>>), Fill(0, 88), Lit(RpmIntro(0, 0))>>),
       Unknown(<<Lit(RPM_LEAD_MAGIC \o <<3, 0, 0, 0>>), Fill(0, 88), Lit(RpmIntro(0, 0)),
                 Fill(0, 16)>>),
       Unknown(<<Lit(RPM_LEAD_MAGIC \o <<3, 0, 0, 0>>), Fill(0, 88), Lit(RpmIntro(0, 0)),
                 Lit(RpmIntro(1, 4) \o RpmEntry(1000, 0))>>),
       Unknown(<<Lit(RPM_LEAD_MAGIC), Fill(0, 1000), Lit(Bytes(<<"k","o","l","y">>)), Fill(0, 508)>>),
       Rpm(RpmEntry(1000, 0), <<0>>),
       RpmSigned(RpmEntry(1000, 0) \o RpmEntry(1011, 0), Bytes(<<"s","i","g">>) \o <<0>>,
                 RpmEntry(1001, 0) \o RpmEntry(1002, 4) \o RpmEntry(1022, 6)
                   \o RpmEntry(1005, 0),
                 Bytes(<<"2",".","1">>) \o <<0>> \o Bytes(<<"3">>) \o <<0>> \o Bytes(<<"n","o","a","r","c","h">>) \o <<0>>),
       Rpm(RpmEntry(1004, 0), [k \in 1..201 |-> 97] \o <<0>>),
       RpmDeclared(<<0, 0, 0, 1>>, <<255, 255, 255, 255>>, RpmEntry(1000, 0) \o Bytes(<<"f","o","o">>) \o <<0>>),
       RpmDeclared(<<0, 0, 0, 1>>, <<0, 0, 1, 0>>, RpmEntry(1000, 0) \o Bytes(<<"f","o","o">>) \o <<0>>),
       RpmDeclared(<<0, 0, 0, 1>>, <<0, 0, 0, 4>>,
                   RpmEntry(1000, 4) \o Bytes(<<"f","o","o">>) \o <<0>> \o Bytes(<<"p","a","y","l","o","a","d">>) \o <<0>>),
       RpmDeclared(<<0, 0, 0, 2>>, <<0, 0, 0, 8>>,
                   RpmEntry(1000, 0) \o RpmEntry(1001, 4) \o Bytes(<<"f","o","o">>) \o <<0>> \o Bytes(<<"1",".","0","!">>)
                     \o Bytes(<<"r","e","s","t">>) \o <<0>>),
       RpmDeclared(<<16, 0, 0, 0>>, <<0, 0, 0, 0>>, RpmEntry(1000, 0) \o Bytes(<<"f","o","o">>) \o <<0>>),
       RpmDeclared(<<0, 0, 0, 3>>, <<0, 0, 0, 0>>, RpmEntry(1000, 0) \o Bytes(<<"f","o","o">>) \o <<0>>),
       Unknown(<<Lit(RPM_LEAD_MAGIC \o <<3, 0, 0, 0>>), Fill(0, 88),
                 Lit(RPM_HEADER_MAGIC \o <<0, 0, 0, 0, 255, 255, 255, 255, 0, 0, 0, 8>>),
                 Fill(0, 32)>>) >>

\* text padded with spaces to a field of a given width
Pad(text, width) == text \o [k \in 1..(width - Len(text)) |-> 32]

\* the 60-byte header of an ar member
ArHeader(id, size) ==
    Pad(id, 16) \o Pad(<<48>>, 12) \o Pad(<<48>>, 6) \o Pad(<<48>>, 6)
      \o Pad(Bytes(<<"1","0","0","6","4","4">>), 8) \o Pad(Decimal(size), 10) \o <<96, 10>>

\* an ar archive of members [id, size], each body a gzip-like filler
RECURSIVE ArBody(_)
ArBody(members) ==
    IF members = <<>> THEN <<>>
    ELSE <<Lit(ArHeader(Head(members).id, Head(members).size)),
           Fill(139, Head(members).size)>> \o ArBody(Tail(members))

Member(id, size) == [ok |-> TRUE, id |-> id, size |-> size]

\* a package: the ar members, and the tar entries of its control archive
Deb(members, tar) ==
    [Plain(<<Lit(AR_GLOBAL_HEADER)>> \o ArBody(members), "Other", "")
       EXCEPT !.ar = [members |-> members], !.tar = tar]

ControlEntry(path, content) ==
    [ok |-> TRUE, pathOk |-> TRUE, path |-> path, readOk |-> TRUE, content |-> content]

ControlTar(content) ==
    [entriesOk |-> TRUE,
     entries |-> << ControlEntry(Bytes(<<".","/">>), <<>>),
                    ControlEntry(Bytes(<<".","/","c","o","n","t","r","o","l">>), content) >>]

DEBIAN_BINARY == Member(Bytes(<<"d","e","b","i","a","n","-","b","i","n","a","r","y">>), 4)

CONTROL_GZ == Member(Bytes(<<"c","o","n","t","r","o","l",".","t","a","r",".","g","z">>), 64)

DATA_XZ == Member(Bytes(<<"d","a","t","a",".","t","a","r",".","x","z">>), 32)

DebBuffers ==
    << Deb(<<DEBIAN_BINARY, CONTROL_GZ, DATA_XZ>>,
           ControlTar(Bytes(<<"P","a","c","k","a","g","e",":"," ","f","o","o">>) \o <<10>>
                        \o Bytes(<<"V","e","r","s","i","o","n",":"," ","1",".","0">>) \o <<10>>
                        \o Bytes(<<"M","a","i","n","t","a","i","n","e","r",":"," ","A","c","m","e"," ",
                    "<","a","@","a","c","m","e",".","e","x","a","m","p","l","e",">">>) \o <<10>>
                        \o Bytes(<<"H","o","m","e","p","a","g","e",":"," ","h","t","t","p","s",":","/","/","a","c","m","e",".","e","x","a","m","p","l","e">>) \o <<10>>)),
       Deb(<<DEBIAN_BINARY, CONTROL_GZ>>,
           ControlTar(Bytes(<<"P","a","c","k","a","g","e",":"," ","f","o","o">>) \o <<13, 10>>
                        \o Bytes(<<"F","o","r","m","a","t",":"," ","3",".","0"," ","(","q","u","i","l",
                    "t",")">>) \o <<10>>)),
       Deb(<<DEBIAN_BINARY, CONTROL_GZ>>,
           ControlTar(Bytes(<<"P","r","o","d","u","c","t","V","e","r","s","i","o","n",":"," ","2",
                    ".","1">>) \o <<10>>
                        \o Bytes(<<"C","o","m","p","a","n","y","N","a","m","e",":"," ","A","c","m","e">>) \o <<10>>
                        \o Bytes(<<"P","r","o","d","u","c","t","N","a","m","e"," ",":"," ","f","o","o">>) \o <<10>>
                        \o Bytes(<<"n","o"," ","c","o","l","o","n"," ","h","e","r","e">>) \o <<10>> \o Bytes(<<"E","m","p","t","y",":">>) \o <<10>>)),
       Deb(<<DEBIAN_BINARY, CONTROL_GZ>>, ControlTar(<<>>)),
       Deb(<<DEBIAN_BINARY, CONTROL_GZ>>, ControlTar(<<255, 254>>)),
       Deb(<<DEBIAN_BINARY, CONTROL_GZ>>,
           [entriesOk |-> TRUE, entries |-> <<ControlEntry(Bytes(<<".","/","m","d","5","s","u","m","s">>), <<>>)>>]),
       Deb(<<DEBIAN_BINARY, CONTROL_GZ>>, NoTar),
       Deb(<<DEBIAN_BINARY, CONTROL_GZ>>,
           [entriesOk |-> TRUE,
            entries |-> <<[ControlEntry(<<>>, <<>>) EXCEPT !.ok = FALSE]>>]),
       Deb(<<DEBIAN_BINARY, Member(Bytes(<<"c","o","n","t","r","o","l",".","t","a","r",".","x","z">>), 64), DATA_XZ>>, NoTar),
       Deb(<<DEBIAN_BINARY, DATA_XZ>>, NoTar),
       Deb(<<DEBIAN_BINARY, [Member(<<>>, 0) EXCEPT !.ok = FALSE]>>, NoTar),
       Deb(<<Member(Bytes(<<"d","e","b","i","a","n","-","b","i","n","a","r","y","/">>), 4), Member(Bytes(<<"c","o","n","t","r","o","l",".","t","a","r",".","g","z","/">>), 64)>>,
           ControlTar(Bytes(<<"P","a","c","k","a","g","e",":"," ","b","a","r">>) \o <<10>>)),
       Deb(<<DATA_XZ, DEBIAN_BINARY, CONTROL_GZ>>, ControlTar(Bytes(<<"P","a","c","k","a","g","e",":"," ","f","o","o">>) \o <<10>>)),
       Deb(<<>>, NoTar),
       [Deb(<<DEBIAN_BINARY, CONTROL_GZ>>, ControlTar(Bytes(<<"P","a","c","k","a","g","e",":"," ","f","o","o">>) \o <<10>>))
          EXCEPT !.data = @ \o <<Fill(0, 500), Lit(Bytes(<<"k","o","l","y">>)), Fill(0, 508)>>] >>

\* the 512-byte koly trailer of a disk image, version 4
KolyTrailer == <<Lit(DMG_KOLY_SIGNATURE \o <<0, 0, 0, 4>>), Fill(0, 504)>>

\* a disk image: what comes before the trailer, then the trailer
Dmg(body) == Plain(body \o KolyTrailer, "Other", "")

XmlKey(key, value) ==
    Bytes(<<"<","k","e","y",">">>) \o key \o Bytes(<<"<","/","k","e","y",">">>)
      \o Bytes(<<"<","s","t","r","i","n","g",">">>) \o value \o Bytes(<<"<","/","s","t","r","i","n","g",">">>)

\* a property list document with the given entries
XmlPlist(entries) ==
    Bytes(<<"<","?","x","m","l"," ","v","e","r","s","i","o","n","=","\"","1",
                    ".","0","\""," ","e","n","c","o","d","i","n","g","=","\"","U","T",
                    "F","-","8","\"","?",">">>)
      \o Bytes(<<"<","p","l","i","s","t"," ","v","e","r","s","i","o","n","=","\"",
                    "1",".","0","\"",">","<","d","i","c","t",">">>) \o entries
      \o Bytes(<<"<","/","d","i","c","t",">","<","/","p","l","i","s","t",">">>)

\* a disk image that holds a property list the plist crate parses to dict
DmgWithPlist(before, text, dict) ==
    [Dmg(before \o <<Lit(text)>> \o <<Fill(0, 100)>>)
       EXCEPT !.plist = [text |-> text, dict |-> dict]]

AppPlist ==
    XmlPlist(XmlKey(Bytes(<<"C","F","B","u","n","d","l","e","N","a","m","e">>), Bytes(<<"F","o","o">>))
               \o XmlKey(Bytes(<<"C","F","B","u","n","d","l","e","S","h","o","r","t","V","e","r","s",
                    "i","o","n","S","t","r","i","n","g">>), Bytes(<<"1",".","2">>))
               \o XmlKey(Bytes(<<"C","F","B","u","n","d","l","e","I","d","e","n","t","i","f","i","e",
                    "r">>), Bytes(<<"c","o","m",".","a","c","m","e",".","f","o","o">>))
               \o XmlKey(Bytes(<<"L","S","A","p","p","l","i","c","a","t","i","o","n","C","a","t","e",
                    "g","o","r","y","T","y","p","e">>),
                         Bytes(<<"p","u","b","l","i","c",".","a","p","p","-","c","a","t","e","g","o",
                    "r","y",".","d","e","v","e","l","o","p","e","r","-","t","o","o","l",
                    "s">>)))

AppDict ==
    [k \in {"CFBundleName", "CFBundleShortVersionString", "CFBundleIdentifier",
            "LSApplicationCategoryType"} |->
        CASE k = "CFBundleName" -> Bytes(<<"F","o","o">>)
          [] k = "CFBundleShortVersionString" -> Bytes(<<"1",".","2">>)
          [] k = "CFBundleIdentifier" -> Bytes(<<"c","o","m",".","a","c","m","e",".","f","o","o">>)
          [] k = "LSApplicationCategoryType" ->
                 Bytes(<<"p","u","b","l","i","c",".","a","p","p","-","c","a","t","e","g","o",
                    "r","y",".","d","e","v","e","l","o","p","e","r","-","t","o","o","l",
                    "s">>)]

NamePlist == XmlPlist(XmlKey(Bytes(<<"C","F","B","u","n","d","l","e","D","i","s","p","l","a","y","N","a",
                    "m","e">>), Bytes(<<" ","B","a","r"," ">>)))

NameDict == [k \in {"CFBundleDisplayName"} |-> Bytes(<<" ","B","a","r"," ">>)]

DmgBuffers ==
    << Dmg(<<>>),
       Dmg(<<Fill(0, 1000)>>),
       DmgWithPlist(<<Fill(0, 64)>>,
                    XmlPlist(XmlKey(Bytes(<<"C","F","B","u","n","d","l","e","N","a","m","e">>), Bytes(<<"F","o","o">>))
                               \o XmlKey(Bytes(<<"C","F","B","u","n","d","l","e","G","e","t","I","n","f","o","S","t","r","i","n","g">>), Bytes(<<"F","o","o"," ","t","o","o","l">>))),
                    [k \in {"CFBundleName", "CFBundleGetInfoString"} |->
                        IF k = "CFBundleName" THEN Bytes(<<"F","o","o">>) ELSE Bytes(<<"F","o","o"," ","t","o","o","l">>)]),
       Dmg(<<Lit(<<120, 156>>), Fill(0, 998)>>),
       Dmg(<<Lit(<<31, 139>>), Fill(7, 100)>>),
       Dmg(<<Lit(MSI_SIGNATURE), Fill(0, 504)>>),
       DmgWithPlist(<<Fill(0, 64), Lit(Bytes(<<"C","o","n","t","e","n","t","s","/","I","n","f","o",".","p","l","i",
                    "s","t">>)), Fill(0, 32)>>,
                    AppPlist, AppDict),
       DmgWithPlist(<<Fill(0, 64)>>, AppPlist, AppDict),
       DmgWithPlist(<<Fill(0, 64)>>, NamePlist, NameDict),
       DmgWithPlist(<<Lit(XmlKey(Bytes(<<"C","F","B","u","n","d","l","e","N","a","m","e">>), Bytes(<<"O","t","h","e","r">>))), Fill(0, 64)>>, 
                    XmlPlist(XmlKey(Bytes(<<"C","F","B","u","n","d","l","e","N","a","m","e">>), Bytes(<<"F","o","o">>))),
                    [k \in {"CFBundleName"} |-> Bytes(<<"F","o","o">>)]),
       Dmg(<<Fill(0, 16), Lit(AppPlist), Fill(0, 16)>>),
       Dmg(<<Fill(0, 16), Lit(XmlKey(Bytes(<<"C","F","B","u","n","d","l","e","N","a","m","e">>), Bytes(<<"B","a","z">>))),
             Fill(0, 16), Lit(Bytes(<<"V","e","r","s","i","o","n"," ","3",".","4"," ">>))>>),
       Dmg(<<Fill(0, 16), Lit(XmlKey(Bytes(<<"C","F","B","u","n","d","l","e","V","e","r","s","i","o","n">>), Bytes(<<"7","7">>))),
             Fill(0, 8), Lit(Bytes(<<"C","o","p","y","r","i","g","h","t"," ","(","c",")"," ","2","0","2",
                    "0"," ","A","c","m","e"," ","W","i","d","g","e","t","s","."," ","A",
                    "l","l"," ","r","i","g","h","t","s">>)), Fill(0, 8)>>),
       Dmg(<<Fill(0, 16), Lit(Bytes(<<"/","A","p","p","l","i","c","a","t","i","o","n","s","/","Q","u","u",
                    "x"," ","T","o","o","l",".","a","p","p","/","C","o","n","t","e","n",
                    "t","s">>)), Fill(0, 16)>>),
       Dmg(<<Fill(0, 16), Lit(Bytes(<<"A","c","m","e"," ","S","e","t","u","p"," ","W","i","z","a","r","d">>)), Fill(0, 16), Lit(Bytes(<<"P","l","a","i","n"," ","W","o","r","d","s">>)),
             Fill(0, 1)>>),
       Dmg(<<Fill(0, 16), Lit(Bytes(<<"P","l","a","i","n"," ","W","o","r","d","s">>)), Fill(1, 3), Lit(Bytes(<<"w","w","w",".","e","x","a","m","p","l","e">>)), Fill(0, 1)>>),
       Dmg(<<Fill(255, 60000), Lit(Bytes(<<"C","o","n","t","e","n","t","s","/","I","n","f","o",".","p","l","i",
                    "s","t">>)), Fill(0, 13)>>),
       Dmg(<<Fill(255, 40), Lit(Bytes(<<"C","o","p","y","r","i","g","h","t"," ","2","0","2","0"," ","A","c",
                    "m","e",".">>)), Fill(0, 13)>>),
       Dmg(<<Fill(255, 7), Lit(Bytes(<<"x">>)), Fill(255, 30), Lit(Bytes(<<"/","F","o","o",".","a","p","p">>)), Fill(0, 13)>>),
       Dmg(<<Fill(255, 50000), Lit(Bytes(<<"C","o","n","t","e","n","t","s","/","I","n","f","o",".","p","l","i",
                    "s","t">>)), Fill(0, 100000)>>) >>

Le16(n) == <<n % 256, n \div 256>>

Le32(n) == <<n % 256, (n \div 256) % 256, (n \div 65536) % 256, n \div 16777216>>

RECURSIVE Concat(_)
Concat(strings) == IF strings = <<>> THEN <<>> ELSE Head(strings) \o Concat(Tail(strings))

\* the !StringPool stream of a string table: code page, flags, and one
\* (reference count, length) pair per string
PoolStream(strings, codepage, flags) ==
    Le16(codepage) \o Le16(flags)
      \o Concat([k \in 1..Len(strings) |-> Le16(1) \o Le16(Len(strings[k]))])

\* one row of a two-column string table
Row2(key_idx, val_idx, idx_size) ==
    IF idx_size = 2 THEN Le16(key_idx) \o Le16(val_idx)
    ELSE Le16(key_idx) \o <<0>> \o Le16(val_idx) \o <<0>>

Stream(name, content) ==
    [name |-> name, len |-> Len(content), streamOk |-> TRUE, readOk |-> TRUE,
     content |-> content]

\* a compound file: the header sector, then the contents of its streams
Cfb(entries) ==
    [open |-> TRUE, err |-> <<>>, rootOk |-> TRUE, entries |-> entries]

CfbLayout(entries) ==
    <<Lit(MSI_SIGNATURE), Fill(0, 504)>>
      \o [k \in 1..Len(entries) |-> Lit(entries[k].content)]

Msi(entries) ==
    [Plain(CfbLayout(entries), "Other", "") EXCEPT !.cfb = Cfb(entries)]

\* "Property" as the table's stream is named
MANGLED_PROPERTY == <<16115, 15960, 16078, 16541>>

PropertyStrings ==
    << Bytes(<<"P","r","o","d","u","c","t","N","a","m","e">>), Bytes(<<"A","c","m","e"," ","T","o","o","l">>),
       Bytes(<<"P","r","o","d","u","c","t","V","e","r","s","i","o","n">>), Bytes(<<"1",".","2",".","3">>),
       Bytes(<<"M","a","n","u","f","a","c","t","u","r","e","r">>), Bytes(<<"A","c","m","e">>), Bytes(<<"F","o","r","m","a","t">>), Bytes(<<"x">>) >>

\* the streams of a package whose Property table has the given rows
Tables(flags, idx_size, rows) ==
    << Stream(Bytes(<<"!","S","t","r","i","n","g","P","o","o","l">>), PoolStream(PropertyStrings, 0, flags)),
       Stream(Bytes(<<"!","S","t","r","i","n","g","D","a","t","a">>), Concat(PropertyStrings)),
       Stream(MANGLED_PROPERTY,
              Concat([k \in 1..Len(rows) |-> Row2(rows[k][1], rows[k][2], idx_size)])) >>

\* the streams of a package with the given string pool and string data
\* and 2-byte Property rows
PoolTables(pool, data, rows) ==
    << Stream(Bytes(<<"!","S","t","r","i","n","g","P","o","o","l">>), pool),
       Stream(Bytes(<<"!","S","t","r","i","n","g","D","a","t","a">>), data),
       Stream(MANGLED_PROPERTY,
              Concat([k \in 1..Len(rows) |-> Row2(rows[k][1], rows[k][2], 2)])) >>

\* a VT_LPWSTR property of units UTF-16 code units
OleWide(units) == Le32(31) \o Le32(Len(units)) \o Concat([k \in 1..Len(units) |-> Le16(units[k])])

\* a VT_I4 property
OleInt(n) == Le32(3) \o Le32(n)

\* a \005SummaryInformation stream with the properties <<id, value>>
PropertySet(props) ==
    Stream(SUMMARY_STREAM,
           <<254, 255>> \o [k \in 1..22 |-> 0] \o Le32(1) \o [k \in 1..16 |-> 0] \o Le32(48)
             \o Le32(8 + 8 * Len(props) + Len(Concat([k \in 1..Len(props) |-> props[k][2]])))
             \o Le32(Len(props))
             \o Concat([k \in 1..Len(props) |->
                          Le32(props[k][1])
                            \o Le32(8 + 8 * Len(props)
                                      + Len(Concat([j \in 1..(k - 1) |-> props[j][2]])))])
             \o Concat([k \in 1..Len(props) |-> props[k][2]]))

\* the strings of a Property table that names its codes and not its version
CodeStrings ==
    << Bytes(<<"U","p","g","r","a","d","e","C","o","d","e">>), Bytes(<<"{","A","A","A","A","A","A","A","A","-","1","1","1","1","-","1","1","1","1","-","1","1","1","1","-","1","1","1","1","1","1","1","1","1","1","1","1","}">>),
       Bytes(<<"P","r","o","d","u","c","t","C","o","d","e">>), Bytes(<<"{","B","B","B","B","B","B","B","B","-","2","2","2","2","-","2","2","2","2","-","2","2","2","2","-","2","2","2","2","2","2","2","2","2","2","2","2","}">>),
       Bytes(<<"P","r","o","d","u","c","t","N","a","m","e">>), Bytes(<<"T","o","o","l">>) >>

\* a property of a property set: VT_LPSTR, length, text
OleString(text) == Le32(30) \o Le32(Len(text)) \o text

\* a \005SummaryInformation stream with two string properties
SummaryStream(pid1, text1, pid2, text2) ==
    Stream(SUMMARY_STREAM,
           <<254, 255>> \o [k \in 1..22 |-> 0] \o Le32(1) \o [k \in 1..16 |-> 0] \o Le32(48)
             \o Le32(24 + Len(OleString(text1)) + Len(OleString(text2))) \o Le32(2)
             \o Le32(pid1) \o Le32(24)
             \o Le32(pid2) \o Le32(24 + Len(OleString(text1)))
             \o OleString(text1) \o OleString(text2))

MsiBuffers ==
    << Plain(<<Lit(MSI_SIGNATURE), Fill(0, 504)>>, "Other", ""),
       Plain(<<Lit(MSI_SIGNATURE), Fill(0, 504),
               Lit(Bytes(<<"P","r","o","d","u","c","t","N","a","m","e">>) \o <<0>> \o Bytes(<<"A","c","m","e"," ","T","o","o","l">>) \o <<0>>),
               Lit(Bytes(<<"{","1","2","3","4","5","6","7","8","-","a","b","c","d","-","A","B",
                    "C","D","-","0","1","2","3","-","4","5","6","7","8","9","a","b","c",
                    "d","e","f","}">>)),
               Lit(Bytes(<<" ","3",".","1","0"," ","a","n","d"," ","1",".","2",".","3"," ">>)), Lit(Bytes(<<"W","i","x","T","o","o","l","s","e","t">>)), Fill(0, 8)>>, "Other", ""),
       Plain(<<Lit(MSI_SIGNATURE), Fill(0, 504),
               Lit(Bytes(<<"M","a","n","u","f","a","c","t","u","r","e","r">>) \o <<1>> \o Bytes(<<"a","b">>) \o <<0>> \o Bytes(<<"P","r","o","p","e","r","t","y">>) \o <<0>>
                     \o Bytes(<<"A","c","m","e",","," ","I","n","c",".">>) \o <<0>>),
               Lit(Bytes(<<"I","n","s","t","a","l","l","S","h","i","e","l","d"," ","1","2",".",
                    "0"," ">>)), Fill(0, 8)>>, "Other", ""),
       Plain(<<Lit(MSI_SIGNATURE), Fill(0, 504),
               Lit(Bytes(<<"{","1","2","3","4","5","6","7","8","-","a","b","c","d","-","A","B","C","D","-","0","1","2","3","-","4","5","6","7","8","9","a","b","c","d","e","f","}">>))>>, "Other", ""),
       Plain(<<Lit(MSI_SIGNATURE), Fill(0, 504),
               Lit(Bytes(<<"{","1","2","3","4","5","6","7","8","-","-","-","-","-","-","A","B","C","D","-","0","1","2","3","-","4","5","6","7","8","9","a","b","c","d","e","f","}">>)), Fill(0, 8)>>, "Other", ""),
       Plain(<<Lit(MSI_SIGNATURE), Fill(0, 504),
               Lit(Bytes(<<"{","1","2","3","4","5","6","7","G","-","a","b","c","d","-","A","B","C","D","-","0","1","2","3","-","4","5","6","7","8","9","a","b","c","d","e","f","}"," ","{","1","2","3","4","5","6","7","8","-","a","b","c","d","-","A","B","C","D","-","0","1","2","3","-","4","5","6","7","8","9","a","b","c","d","e","f","}">>)),
               Fill(0, 8)>>, "Other", ""),
       Plain(<<Lit(MSI_SIGNATURE), Fill(0, 504),
               Lit(Bytes(<<"v","1",".","2",".","3",".","0","0","0","0","0","0","0","0","0","0","0","0","0","0","0"," ","e","n","d">>)), Fill(0, 8)>>, "Other", ""),
       Plain(<<Lit(MSI_SIGNATURE), Fill(0, 504),
               Lit(Bytes(<<"3",".","5"," ","1",".","5"," ","3",".","7"," ","1","2",".","4","."," ","9",".">>)), Fill(0, 8)>>, "Other", ""),
       Msi(Tables(0, 2, <<<<1, 2>>, <<3, 4>>, <<5, 6>>>>)),
       Msi(Tables(0, 2, <<<<1, 2>>, <<3, 4>>, <<7, 8>>>>)),
       Msi(Tables(32768, 3, <<<<1, 2>>, <<9, 4>>, <<5, 0>>>>)),
       Msi(Tables(32768, 3, <<<<1, 2>>, <<3, 4>>, <<5, 6>>>>)),
       Msi(Tables(0, 2, <<<<1, 2>>>>)
             \o <<SummaryStream(3, Bytes(<<"O","t","h","e","r"," ","N","a","m","e">>), 4, Bytes(<<"A","c","m","e">>) \o <<0>>)>>),
       Msi(<<SummaryStream(2, Bytes(<<"I","n","s","t","a","l","l","a","t","i","o","n"," ","D","a","t","a",
                    "b","a","s","e">>), 9,
                           Bytes(<<"{","1","2","3","4","5","6","7","8","-","A","B","C","D","-","A","B",
                    "C","D","-","0","1","2","3","-","4","5","6","7","8","9","A","B","C",
                    "D","E","F","}">>))>>),
       Msi(<<Stream(<<18496>> \o MANGLED_PROPERTY, Row2(1, 2, 2))>>),
       Msi(<<PropertySet(<< <<2, OleString(Bytes(<<"F","i","r","s","t">>))>>, <<2, OleWide(<<84, 119, 111>>)>>,
                            <<5, OleInt(7)>>, <<12, OleString(Bytes(<<"S","k","i","p">>))>>,
                            <<6, OleString(<<0, 0>>)>>, <<3, OleString(Bytes(<<"N","a","m","e">>))>>,
                            <<3, OleString(Bytes(<<"A","g","a","i","n">>))>>, <<9, OleString(Bytes(<<"C","o","d","e">>) \o <<0>>)>> >>)>>),
       Msi(PoolTables(PoolStream(CodeStrings, 0, 0), Concat(CodeStrings),
                      <<<<1, 2>>, <<3, 4>>, <<5, 6>>>>)),
       Msi(Tables(0, 2, <<<<1, 2>>, <<3, 4>>>>) \o <<Stream(<<14346, 18437, 95>>, <<1, 2>>)>>),
       Msi(PoolTables(Le16(0) \o Le16(0) \o Le16(1) \o Le16(3) \o Le16(1) \o Le16(5)
                        \o Le16(0) \o Le16(0) \o Le16(1) \o Le16(4) \o <<7, 7>>,
                      Bytes(<<"K","e","y","v","a","l","u","e","x","y">>), <<<<1, 2>>, <<4, 2>>, <<2, 3>>, <<5, 1>>>>)),
       Msi(PoolTables(Le16(1200) \o Le16(0) \o Le16(1) \o Le16(2) \o Le16(1) \o Le16(5),
                      <<75, 0, 118, 0, 49, 0, 33>>, <<<<1, 2>>>>)),
       Msi(PoolTables(Le16(0) \o Le16(0) \o Le16(1) \o Le16(1) \o Le16(1) \o Le16(2),
                      <<75, 255, 118>>, <<<<1, 2>>>>)),
       [Msi(<<>>) EXCEPT !.cfb.rootOk = FALSE],
       [Msi(Tables(0, 2, <<<<1, 2>>, <<3, 4>>>>))
          EXCEPT !.data = @ \o <<Fill(0, 100), Lit(DMG_KOLY_SIGNATURE), Fill(0, 508)>>] >>

\* what goblin and pelite make of a well-formed image without resources
PeView(is_64) ==
    [NoPe("PE", "") EXCEPT
       !.is_64 = is_64, !.image = TRUE,
       !.header = [Machine |-> IF is_64 THEN 34404 ELSE 332, NumberOfSections |-> 3,
                   SizeOfOptionalHeader |-> IF is_64 THEN 240 ELSE 224,
                   Characteristics |-> 258, PointerToSymbolTable |-> 0,
                   NumberOfSymbols |-> 0, TimeDateStamp |-> 1600000000],
       !.optional = [AddressOfEntryPoint |-> 4096,
                     ImageBase |-> IF is_64 THEN 268435456 ELSE 4194304,
                     SizeOfImage |-> 16384, Subsystem |-> 2, DllCharacteristics |-> 33088],
       !.resources = [ok |-> FALSE, err |-> Bytes(<<"N","u","l","l">>)]]

String(key, value) == [key |-> key, value |-> value]

Translation(strings) ==
    [debug |-> Bytes(<<"L","a","n","g","u","a","g","e"," ","{"," ","l","a","n","g","_","i",
                    "d",":"," ","1","0","3","3",","," ","c","h","a","r","s","e","t","_",
                    "i","d",":"," ","1","2","0","0"," ","}">>),
     strings |-> strings]

\* a view whose version info holds the given translations
Versioned(view, fixed, translations) ==
    [view EXCEPT !.resources = [ok |-> TRUE, err |-> <<>>],
                 !.version = [ok |-> TRUE, err |-> <<>>, fixed |-> fixed,
                              translations |-> translations]]

Fixed ==
    [some |-> TRUE, dwFileVersion |-> <<1, 2, 3, 4>>, dwProductVersion |-> <<1, 2, 0, 0>>,
     dwFileFlags |-> 0, dwFileOS |-> 262148, dwFileType |-> 1]

\* the DOS and NT headers of an image, then what follows them
PeLayout(rest) ==
    <<Lit(Bytes(<<"M","Z">>)), Fill(0, 58), Lit(<<64, 0, 0, 0>> \o Bytes(<<"P","E">>) \o <<0, 0>>), Fill(0, 320)>>
      \o rest

Pe(rest, view) == [Plain(PeLayout(rest), "PE", "") EXCEPT !.pe = view]

\* an image that carries a compound file with the given streams behind it
PeWithMsi(rest, view, entries) ==
    Pe(rest \o CfbLayout(entries), [view EXCEPT !.embedded = Cfb(entries)])

PeBuffers ==
    << Pe(<<>>, PeView(FALSE)),
       Pe(<<>>, Versioned(PeView(TRUE), Fixed,
                          <<Translation(<<String(Bytes(<<"C","o","m","p","a","n","y","N","a","m","e">>), Bytes(<<"A","c","m","e">>)),
                                          String(Bytes(<<"F","i","l","e","D","e","s","c","r","i","p","t","i","o","n">>), Bytes(<<"T","o","o","l">>)),
                                          String(Bytes(<<"P","r","o","d","u","c","t","V","e","r","s","i","o","n">>), Bytes(<<"1",".","0">>)),
                                          String(Bytes(<<"C","o","m","m","e","n","t","s">>), <<>>)>>)>>)),
       Pe(<<Lit(Bytes(<<"O","=","A","c","m","e"," ","C","o","r","p",",","C","=","U","S">>)), Fill(0, 4)>>,
          Versioned(PeView(FALSE), Fixed, <<Translation(<<>>)>>)),
       Pe(<<Lit(Bytes(<<"O","=","x">>)), Fill(0, 4), Lit(Bytes(<<"C","N","=","A","c","m","e"," ","S","i","g","n","i","n","g">>)), Fill(0, 4)>>, PeView(FALSE)),
       Pe(<<Lit(Bytes(<<"O","=","M","i","c","r","o","s","o","f","t"," ","C","o","r","p","o","r","a","t","i","o","n">>)), Fill(0, 4)>>, PeView(FALSE)),
       Pe(<<Lit(Bytes(<<"O","=","A","c","m","e"," ","(","U","K",")"," ","L","t","d">>)), Fill(0, 4)>>, PeView(FALSE)),
       Pe(<<Lit(MSI_SIGNATURE), Fill(0, 100)>>, PeView(FALSE)),
       PeWithMsi(<<>>, PeView(FALSE), Tables(0, 2, <<<<1, 2>>, <<3, 4>>, <<5, 6>>>>)),
       PeWithMsi(<<>>, Versioned(PeView(FALSE), NoFixed,
                                 <<Translation(<<String(Bytes(<<"P","r","o","d","u","c","t","N","a","m","e">>), Bytes(<<"S","h","e","l","l">>))>>)>>),
                 Tables(0, 2, <<<<1, 2>>, <<3, 4>>>>)),
       PeWithMsi(<<Lit(Bytes(<<"C","N","=","A","c","m","e"," ","S","i","g","n","i","n","g">>)), Fill(0, 4)>>, PeView(TRUE),
                 Tables(0, 2, <<<<1, 2>>, <<3, 4>>, <<5, 6>>>>)),
       Pe(<<Lit(Bytes(<<"W","i","n","d","o","w","s"," ","I","n","s","t","a","l","l","e","r"," ","X","M","L">>)), Fill(0, 4)>>, PeView(FALSE)),
       Pe(<<Lit(Bytes(<<"O","=","A","c","m","e"," ","C","o","r","p",",","C","=","U","S">>)), Fill(0, 4)>>,
          Versioned(PeView(FALSE), Fixed,
                    <<Translation(<<String(Bytes(<<"C","o","m","p","a","n","y","N","a","m","e">>), Bytes(<<"A","c","m","e"," ","I","n","c">>))>>)>>)),
       Pe(<<Lit(Bytes(<<"O","=","f","r","o","m"," ","d","i","g","i","t","a","l"," ","s","i","g","n","a","t","u","r","e"," ","x">>)), Fill(0, 4)>>,
          Versioned(PeView(FALSE), Fixed, <<Translation(<<>>)>>)),
       PeWithMsi(<<Lit(Bytes(<<"C","N","=","A","c","m","e"," ","S","i","g","n","i","n","g">>)), Fill(0, 4)>>,
                 Versioned(PeView(FALSE), NoFixed, <<Translation(<<>>)>>),
                 Tables(0, 2, <<<<1, 2>>, <<3, 4>>, <<5, 6>>>>)),
       Pe(<<>>, [PeView(FALSE) EXCEPT !.image = FALSE]),
       Pe(<<>>, Versioned(PeView(FALSE), NoFixed,
                          <<Translation(<<String(Bytes(<<"F","o","r","m","a","t">>), Bytes(<<"c","u","s","t","o","m">>))>>)>>)),
       Pe(<<>>, Versioned(PeView(FALSE), NoFixed,
                          <<Translation(<<String(Bytes(<<"C","o","m","p","a","n","y","N","a","m","e">>), Bytes(<<"A","c","m","e">>)),
                                          String(Bytes(<<"P","u","b","l","i","s","h","e","r">>), Bytes(<<"O","t","h","e","r">>))>>)>>)),
       Pe(<<Lit(Bytes(<<"I","n","n","o"," ","S","e","t","u","p">>)), Fill(0, 4)>>,
          [PeView(TRUE) EXCEPT !.resources = [ok |-> TRUE, err |-> <<>>],
                               !.version = [@ EXCEPT !.err = Bytes(<<"I","n","v","a","l","i","d">>)]]),
       Pe(<<Lit(Bytes(<<"N","S","I","S",".","H","e","a","d","e","r">>)), Fill(0, 4), Lit(Bytes(<<"W","i","n","d","o","w","s"," ","I","n","s","t","a","l","l","e","r">>)), Fill(0, 4)>>,
          Versioned(PeView(FALSE), Fixed,
                    <<Translation(<<String(Bytes(<<"P","r","o","d","u","c","t","N","a","m","e">>), Bytes(<<"T","o","o","l">>))>>),
                      Translation(<<String(Bytes(<<"P","r","o","d","u","c","t","N","a","m","e">>), Bytes(<<"O","u","t","i","l">>)),
                                    String(Bytes(<<"P","r","o","d","u","c","t","V","e","r","s","i","o","n">>), Bytes(<<"2",".","0">>))>>)>>)) >>

Inputs ==
    ShortBuffers \o UnknownBuffers \o RpmBuffers \o DebBuffers \o DmgBuffers
      \o MsiBuffers \o PeBuffers

----------------------------------------------------------------------------
(* The module is called from JavaScript, one call at a time: a call is     *)
(* given a buffer, and its result is taken before the next call is made.   *)
(* input is the buffer of the call in hand, call the function called and   *)
(* outcome what it returned.                                               *)

Buffers == {Inputs[i] : i \in 1..Len(Inputs)}

NoInput == Plain(<<>>, "Err", "")

TypeOK ==
    /\ call \in {"none", "analyze_file", "get_file_info", "analyze_pe_file"}
    /\ outcome.kind \in {"none", "ok", "err", "panic"}
    /\ call = "none" <=> outcome.kind = "none"

Init ==
    /\ input = NoInput
    /\ call = "none"
    /\ outcome = NoOutcome

AnalyzeFile(b) ==
    /\ input' = b
    /\ call' = "analyze_file"
    /\ \E ord \in Orders(DOMAIN AllStrings(b.pe)) : outcome' = analyze_file(b, ord)

GetFileInfo(b) ==
    /\ input' = b
    /\ call' = "get_file_info"
    /\ outcome' = get_file_info(b)

AnalyzePeFile(b) ==
    /\ input' = b
    /\ call' = "analyze_pe_file"
    /\ \E ord \in Orders(DOMAIN AllStrings(b.pe)) : outcome' = analyze_pe_file(b, ord)

\* the caller takes the result and lets go of the buffer
Return ==
    /\ call # "none"
    /\ input' = NoInput
    /\ call' = "none"
    /\ outcome' = NoOutcome

Call == \E b \in Buffers : AnalyzeFile(b) \/ GetFileInfo(b) \/ AnalyzePeFile(b)

Next == (call = "none" /\ Call) \/ Return

Spec == Init /\ [][Next]_vars

----------------------------------------------------------------------------
(* Properties of the dispatcher (lib.rs).                                  *)

Analyzing == call \in {"analyze_file", "analyze_pe_file"}

\* the analyzer whose sniffer is the first to accept the buffer, "PE" being
\* the fallback that has no sniffer
FirstSniffer(in) ==
    IF is_msi_file(in) THEN "MSI"
    ELSE IF is_dmg_file(in) THEN "DMG"
    ELSE IF is_deb_file(in) THEN "DEB"
    ELSE IF is_rpm_file(in) THEN "RPM"
    ELSE "PE"

\* what analyze returns when the analyzer named is the only one consulted
ResultOf(in, analyzer) ==
    IF analyzer = "MSI" THEN {Serialized(MSIAnalyzer_parse_metadata(in))}
    ELSE IF analyzer = "DMG" THEN {Serialized(DMGAnalyzer_parse_metadata(in))}
    ELSE IF analyzer = "DEB" THEN {Serialized(DEBAnalyzer_parse_metadata(in))}
    ELSE IF analyzer = "RPM" THEN {Serialized(RPMAnalyzer_parse_metadata(in))}
    ELSE IF in.pe.kind = "PE"
    THEN {Serialized(PEAnalyzer_parse_metadata(in, ord)) :
            ord \in Orders(DOMAIN AllStrings(in.pe))}
    ELSE IF in.pe.kind = "Err" THEN {Err("Failed to parse file: " \o in.pe.err)}
    ELSE {Err("Unsupported file format. Supported formats: PE, MSI, DMG, DEB, RPM.")}

\* C1: analyze probes the sniffers in the order MSI, DMG, DEB, RPM, PE and
\* returns the extraction result of the first sniffer that accepts the
\* buffer; no later analyzer is consulted
C1_DispatchOrder == Analyzing => outcome \in ResultOf(input, FirstSniffer(input))

\* a buffer with the OLE magic and a koly trailer has been reported as MSI
C1_Witness ==
    /\ Analyzing
    /\ is_msi_file(input) /\ is_dmg_file(input)
    /\ outcome.kind = "ok" /\ outcome.map["Format"] = "MSI"

Succeeded == outcome.kind = "ok"

FORMATS == {"PE", "MSI", "DMG", "DEB", "RPM"}

\* C2: every successful output map of analyze has the key Format, and its
\* value is one of PE, MSI, DMG, DEB, RPM, whatever keys the input supplies
C2_FormatAlways ==
    Analyzing /\ Succeeded
      => Has(outcome.map, "Format") /\ outcome.map["Format"] \in FORMATS

\* the decimal length of the buffer in hand, as text
SizeText == Str(Decimal(BufLen(input.data)))

HasSize == Has(outcome.map, "Size") /\ outcome.map["Size"] = SizeText

C4_InfoKeys == call = "get_file_info" => DOMAIN outcome.map = {"Format", "Size"}

AcceptedBySniffer(in) ==
    is_msi_file(in) \/ is_dmg_file(in) \/ is_deb_file(in) \/ is_rpm_file(in)

\* what the dispatcher reports for a buffer no analyzer claims: the Format
\* of info, the error of analyze
ReportsUnclaimed ==
    /\ call = "get_file_info"
         => outcome.map["Format"] \in {"Invalid binary", "Unsupported"}
    /\ Analyzing => outcome.kind = "err"

\* C5, as stated: no sniffer accepts a buffer shorter than 8 bytes, and the
\* dispatcher reports Invalid binary or Unsupported
C5_ShortNeverAccepted ==
    call # "none" /\ BufLen(input.data) < 8
      => ~AcceptedBySniffer(input) /\ ReportsUnclaimed

StartsWithRpmMagic(data) == BufLen(data) >= 4 /\ Slice(data, 0, 4) = RPM_LEAD_MAGIC

\* C5, amended: no sniffer accepts a buffer shorter than 8 bytes that does
\* not start with the four bytes of the RPM lead magic, and the dispatcher
\* reports Invalid binary or Unsupported for it
C5_ShortRejected ==
    call # "none" /\ BufLen(input.data) < 8 /\ ~StartsWithRpmMagic(input.data)
      => ~AcceptedBySniffer(input) /\ ReportsUnclaimed

\* info has been called with the first seven bytes of the OLE magic
C5_Witness ==
    /\ call = "get_file_info"
    /\ BufLen(input.data) = 7 /\ Slice(input.data, 0, 7) = SubSeq(MSI_SIGNATURE, 1, 7)
    /\ outcome.map["Format"] = "Invalid binary"

\* C6: the DMG sniffer accepts a buffer if and only if it has 512 bytes or
\* more and the four bytes at offset len-512 are koly; a compression prefix
\* never changes the verdict
C6_DmgSniffer ==
    call # "none"
      => (is_dmg_file(input)
            <=> /\ BufLen(input.data) >= 512
                /\ Slice(input.data, BufLen(input.data) - 512, 4) = DMG_KOLY_SIGNATURE)

\* a buffer of 512 bytes or more with a compression prefix and no koly
\* trailer has been rejected by the DMG sniffer
C6_Witness ==
    /\ call # "none"
    /\ BufLen(input.data) >= 512 /\ HasCompressionPrefix(input.data)
    /\ ~is_dmg_file(input)
    /\ FirstSniffer(input) = "PE"

\* C7: a buffer accepted by the MSI or DMG sniffer always yields a success
\* map; analyze fails only when no sniffer accepted and the PE parse
\* failed, or when DEB or RPM met a structural error
C7_FailureOnlyWhen ==
    Analyzing
      => \/ Succeeded
         \/ outcome.kind = "err" /\ FirstSniffer(input) \in {"DEB", "RPM", "PE"}

\* C8: in every successful output, if ProductVersion is present then
\* FileVersion, FileVersionNumber and ProductVersionNumber are present
C8_VersionAliases ==
    Analyzing /\ Succeeded /\ Has(outcome.map, "ProductVersion")
      => {"FileVersion", "FileVersionNumber", "ProductVersionNumber"}
           \subseteq DOMAIN outcome.map

\* C9: in every successful output, if CompanyName is present then Vendor
\* and Publisher are present, and if ProductName is present then
\* ProgramName is present
C9_NameAliases ==
    Analyzing /\ Succeeded
      => /\ Has(outcome.map, "CompanyName")
              => {"Vendor", "Publisher"} \subseteq DOMAIN outcome.map
         /\ Has(outcome.map, "ProductName") => Has(outcome.map, "ProgramName")

\* C10: in every PE output with EmbeddedMSI there is a key K such that
\* KFromEmbeddedMSI is present and the value of K is that of
\* KFromEmbeddedMSI followed by " (from embedded MSI)"
C10_EmbeddedFields ==
    Analyzing /\ Succeeded /\ Has(outcome.map, "EmbeddedMSI")
      /\ FirstSniffer(input) = "PE"
      => \E K \in DOMAIN outcome.map :
            /\ Has(outcome.map, K \o "FromEmbeddedMSI")
            /\ outcome.map[K]
                 = outcome.map[K \o "FromEmbeddedMSI"] \o " (from embedded MSI)"

----------------------------------------------------------------------------
(* Properties of the values the analyzers store.                           *)

\* C11: no key of a successful output map has the empty string as its
\* value
C11_NoEmptyValue ==
    call # "none" /\ Succeeded => \A k \in DOMAIN outcome.map : outcome.map[k] # ""

\* the maps, values still bytes, that analyze may have serialised into the
\* outcome in hand
Extracted ==
    {r \in {parse_metadata(input, ord) : ord \in Orders(DOMAIN AllStrings(input.pe))} :
        Serialized(r) = outcome}

\* C12: no value of a successful output map is longer than 200 bytes
C12_ValueLength ==
    Analyzing /\ Succeeded
      => \A r \in Extracted : \A k \in DOMAIN r.map : Len(r.map[k]) <= 200

----------------------------------------------------------------------------
(* Properties of the RPM analyzer (rpm.rs).                                *)

\* the buffer in hand goes to the RPM analyzer
RpmCall == Analyzing /\ FirstSniffer(input) = "RPM"

\* offset has the 16 fixed bytes of a header structure with its magic
HasHeaderAt(data, offset) ==
    offset + 16 <= BufLen(data) /\ Slice(data, offset, 4) = RPM_HEADER_MAGIC

\* index_count and store_size as the header at offset declares them
DeclaredCount(data, offset) == U32BEUsize(data, offset + 8)

DeclaredSize(data, offset) == U32BEUsize(data, offset + 12)

\* the declared index and store end after the end of the buffer
ExtendsPastEnd(data, offset) ==
    \/ DeclaredCount(data, offset).hi > 0
    \/ DeclaredSize(data, offset).hi > 0
    \/ offset + 16 + DeclaredCount(data, offset).lo * 16
         + DeclaredSize(data, offset).lo > BufLen(data)

\* where the Immutable Header begins when the Signature Header is empty
EMPTY_SIGNATURE_END == RPM_LEAD_SIZE + 16

EmptySignature(data) ==
    /\ HasHeaderAt(data, RPM_LEAD_SIZE)
    /\ DeclaredCount(data, RPM_LEAD_SIZE) = Usize(0)
    /\ DeclaredSize(data, RPM_LEAD_SIZE) = Usize(0)

\* the buffer has a lead and an empty Signature Header, and its Immutable
\* Header is cut short, has a wrong magic, or declares more than is there
BrokenImmutableHeader(data) ==
    /\ EmptySignature(data)
    /\ \/ ~HasHeaderAt(data, EMPTY_SIGNATURE_END)
       \/ ExtendsPastEnd(data, EMPTY_SIGNATURE_END)

\* C13: for a buffer whose Immutable Header declares an index and store
\* that extend past the end of the buffer, or is cut short, or has a wrong
\* magic, the RPM analyzer returns an error and no map
C13_TruncatedIsError ==
    RpmCall /\ BrokenImmutableHeader(input.data) => outcome.kind = "err"

\* a header structure that lies inside the buffer
WholeHeaderAt(data, offset) == HasHeaderAt(data, offset) /\ ~ExtendsPastEnd(data, offset)

\* the end of the header structure at offset, padded to 8 bytes
HeaderEnd(data, offset) ==
    offset + ((16 + DeclaredCount(data, offset).lo * 16
                 + DeclaredSize(data, offset).lo + 7) \div 8) * 8

ImmutableAt(data) == HeaderEnd(data, RPM_LEAD_SIZE)

\* the tags the analyzer maps, with their keys
MAPPED_TAGS ==
    << <<1000, "ProductName">>, <<1001, "ProductVersion">>, <<1002, "Release">>,
       <<1004, "Description">>, <<1011, "Vendor">>, <<1014, "License">>,
       <<1016, "GroupName">>, <<1020, "Url">>, <<1022, "Architecture">>,
       <<1044, "SourceRpm">> >>

\* the index entries of the Immutable Header, 0-based, that have this tag
EntriesTagged(data, tag) ==
    {i \in 0 .. (DeclaredCount(data, ImmutableAt(data)).lo - 1) :
        U32BE(data, ImmutableAt(data) + 16 + i * 16) = tag}

StoreStart(data) ==
    ImmutableAt(data) + 16 + DeclaredCount(data, ImmutableAt(data)).lo * 16

StoreEnd(data) == StoreStart(data) + DeclaredSize(data, ImmutableAt(data)).lo

\* where the value of entry i begins, and the first NUL from there on
ValueStart(data, i) == StoreStart(data) + U32BE(data, ImmutableAt(data) + 16 + i * 16 + 8)

NulsAfter(data, i) ==
    {e \in ValueStart(data, i) .. (StoreEnd(data) - 1) : ByteAt(data, e) = 0}

\* entry i is a string (type 6, or 9 for a translated one) that begins
\* inside the store, ends with a NUL inside the store and is valid UTF-8
StringValued(data, i) ==
    /\ U32BE(data, ImmutableAt(data) + 16 + i * 16 + 4) \in {6, 9}
    /\ ByteAt(data, ImmutableAt(data) + 16 + i * 16 + 8) = 0
    /\ ValueStart(data, i) < StoreEnd(data)
    /\ NulsAfter(data, i) # {}
    /\ IsValidUtf8(Slice(data, ValueStart(data, i),
                         MinOf(NulsAfter(data, i)) - ValueStart(data, i)))

\* 96-byte lead, Signature Header, Immutable Header; every entry with a
\* mapped tag is a string
WellFormedRpm(data) ==
    /\ BufLen(data) >= RPM_LEAD_SIZE
    /\ WholeHeaderAt(data, RPM_LEAD_SIZE)
    /\ WholeHeaderAt(data, ImmutableAt(data))
    /\ \A t \in 1..Len(MAPPED_TAGS) :
          \A i \in EntriesTagged(data, MAPPED_TAGS[t][1]) : StringValued(data, i)

\* the text from store_start + offset up to the first NUL, for the last
\* entry with the mapped tag t
TaggedText(data, t) ==
    LET i == MaxOf(EntriesTagged(data, MAPPED_TAGS[t][1]))
    IN  Str(Slice(data, ValueStart(data, i),
                  MinOf(NulsAfter(data, i)) - ValueStart(data, i)))

ExpectedRpmMap(data) ==
    [k \in {"Format"} \cup {MAPPED_TAGS[t][2] :
                              t \in {t \in 1..Len(MAPPED_TAGS) :
                                       EntriesTagged(data, MAPPED_TAGS[t][1]) # {}}} |->
        IF k = "Format" THEN "RPM"
        ELSE TaggedText(data, CHOOSE t \in 1..Len(MAPPED_TAGS) : MAPPED_TAGS[t][2] = k)]

\* C14: for a well-formed RPM the output map is exactly Format = RPM plus,
\* for each entry of the Immutable Header with a mapped tag, the mapped key
\* holding the bytes from store_start + offset up to the first NUL; other
\* tags and the entries of the Signature Header add no key
C14_WellFormedRpm ==
    RpmCall /\ WellFormedRpm(input.data)
      => Succeeded /\ outcome.map = ExpectedRpmMap(input.data)

\* a well-formed RPM whose Signature Header has entries of its own, and
\* whose Immutable Header has an entry with a tag that is not mapped, has
\* been analysed
C14_Witness ==
    /\ RpmCall /\ WellFormedRpm(input.data)
    /\ DeclaredCount(input.data, RPM_LEAD_SIZE).lo > 0
    /\ EntriesTagged(input.data, 1005) # {}
    /\ Succeeded /\ Has(outcome.map, "ProductVersion")

DebCall == Analyzing /\ FirstSniffer(input) = "DEB"

\* the name of ar member k as the analyzer compares it
MemberName(in, k) ==
    TrimEndMatches(IF IsValidUtf8(in.ar.members[k].id) THEN in.ar.members[k].id ELSE <<>>, 47)

\* the ar members whose name begins with control.tar
ControlMembers(in) ==
    {k \in 1..Len(in.ar.members) : StartsWith(MemberName(in, k), CONTROL_TAR)}

\* every ar member up to and including member k can be read
ReadableTo(in, k) == \A j \in 1..k : in.ar.members[j].ok

\* the first control.tar member is the .gz variant and its tar entries
\* can be read up to a control file that is valid text
ControlFiles(in) ==
    {k \in 1..Len(in.tar.entries) : in.tar.entries[k].path \in CONTROL_PATHS}

HasControlFile(in) ==
    /\ ControlMembers(in) # {}
    /\ ReadableTo(in, MinOf(ControlMembers(in)))
    /\ EndsWith(MemberName(in, MinOf(ControlMembers(in))), Bytes(<<".", "g", "z">>))
    /\ in.tar.entriesOk
    /\ ControlFiles(in) # {}
    /\ \A k \in 1..MinOf(ControlFiles(in)) :
          in.tar.entries[k].ok /\ in.tar.entries[k].pathOk
    /\ in.tar.entries[MinOf(ControlFiles(in))].readOk
    /\ IsValidUtf8(in.tar.entries[MinOf(ControlFiles(in))].content)

ControlFile(in) == in.tar.entries[MinOf(ControlFiles(in))].content

\* key and value of a line, split at its first colon and trimmed
KeyOf(line) == Trim(SubSeq(line, 1, IndexOf(line, 58) - 1))

ValueOf(line) == Trim(SubSeq(line, IndexOf(line, 58) + 1, Len(line)))

\* the positions of the Key: Value lines of a control file
KeyValueLines(content) ==
    {n \in 1..Len(Lines(content)) :
        /\ IndexOf(Lines(content)[n], 58) # 0
        /\ KeyOf(Lines(content)[n]) # <<>>
        /\ ValueOf(Lines(content)[n]) # <<>>}

\* the map a control file stands for: Format, then one entry per Key: Value
\* line, a later line replacing an earlier one with the same key
ControlMap(content) ==
    [k \in {"Format"} \cup {Str(KeyOf(Lines(content)[n])) : n \in KeyValueLines(content)} |->
        IF \E n \in KeyValueLines(content) : Str(KeyOf(Lines(content)[n])) = k
        THEN Str(ValueOf(Lines(content)[
                 MaxOf({n \in KeyValueLines(content) : Str(KeyOf(Lines(content)[n])) = k})]))
        ELSE "DEB"]

\* C15: the DEB analyzer returns an error when no ar member name begins
\* with control.tar, the unsupported compression error when the first such
\* member is not the .gz variant, exactly {Format: DEB} when the control
\* file is empty, and otherwise one map entry for every Key: Value line of
\* the control file, split at the first colon and trimmed
C15_DebControl ==
    DebCall =>
      /\ ControlMembers(input) = {} => outcome.kind = "err"
      /\ (/\ ControlMembers(input) # {}
          /\ ReadableTo(input, MinOf(ControlMembers(input)))
          /\ ~EndsWith(MemberName(input, MinOf(ControlMembers(input))),
                       Bytes(<<".", "g", "z">>)))
           => /\ outcome.kind = "err"
              /\ outcome.err = "Unsupported control archive compression: "
                                 \o Str(MemberName(input, MinOf(ControlMembers(input))))
      /\ HasControlFile(input) /\ ControlFile(input) = <<>>
           => Succeeded /\ outcome.map = [k \in {"Format"} |-> "DEB"]
      /\ HasControlFile(input)
           => Succeeded /\ outcome.map = ControlMap(ControlFile(input))

\* a control file with a line that has two colons has been read
C15_Witness ==
    /\ DebCall /\ HasControlFile(input) /\ Succeeded
    /\ Has(outcome.map, "Homepage") /\ outcome.map["Homepage"] = "https://acme.example"

MsiCall == Analyzing /\ FirstSniffer(input) = "MSI"

\* what the heuristic scan alone finds in the buffer
HeuristicScan(in) ==
    ToJson(extract_msi_properties(in.data, Insert(EmptyMap, "Format", Bytes(<<"M","S","I">>))))

\* C16: for a buffer that starts with the OLE magic and cannot be opened as
\* a compound file, the MSI analyzer returns a success map with Format = MSI
\* and the key CompoundFileError, after the heuristic scan; never an error
C16_OpenFailure ==
    MsiCall /\ ~input.cfb.open =>
      /\ Succeeded
      /\ Has(outcome.map, "Format") /\ outcome.map["Format"] = "MSI"
      /\ Has(outcome.map, "CompoundFileError")
      /\ \A k \in DOMAIN HeuristicScan(input) : Has(outcome.map, k) /\ outcome.map[k] = HeuristicScan(input)[k]
      /\ DOMAIN outcome.map = DOMAIN HeuristicScan(input) \cup {"CompoundFileError"}

\* a buffer with the OLE magic that is no compound file, in which the scan
\* found a product code, has been analysed
C16_Witness ==
    /\ MsiCall /\ ~input.cfb.open /\ Succeeded
    /\ Has(outcome.map, "ProductCode")

PoolData(in) == ReadNamed(in.cfb.entries, Bytes(<<"!","S","t","r","i","n","g","P","o","o","l">>))

StringData(in) == ReadNamed(in.cfb.entries, Bytes(<<"!","S","t","r","i","n","g","D","a","t","a">>))

\* n, the number of length records of a pool stream
Records(pool_data) == IF Len(pool_data) < 4 THEN 0 ELSE (Len(pool_data) - 4) \div 4

\* the length of record i, from 1
RecordLength(pool_data, i) == U16LE(pool_data, 4 + (i - 1) * 4 + 2)

\* the sum of the lengths of records 1..i
RECURSIVE LengthSum(_, _)
LengthSum(pool_data, i) ==
    IF i = 0 THEN 0 ELSE LengthSum(pool_data, i - 1) + RecordLength(pool_data, i)

\* the bytes of a slice as the text of the pool's code page
PoolText(pool_data, bytes) ==
    IF U16LE(pool_data, 0) = 1200 THEN Utf16Lossy(bytes) ELSE LossyFrom(bytes, 1)

\* the slice of record i, as far as the string data reaches
SliceOf(pool_data, string_data, i) ==
    SubSeq(string_data, LengthSum(pool_data, i - 1) + 1,
           IF LengthSum(pool_data, i) <= Len(string_data)
           THEN LengthSum(pool_data, i) ELSE Len(string_data))

\* the package has a string pool that the analyzer has built
PoolBuilt ==
    /\ MsiCall /\ input.cfb.open /\ input.cfb.rootOk
    /\ PoolData(input) # <<>> /\ StringData(input) # <<>>

\* C17: lookup of index 0 and of any index greater than n returns nothing,
\* and lookup of index i with 1 <= i <= n returns the slice of the string
\* data that starts at the sum of the lengths of records 1..i-1 and has the
\* length of record i
C17_PoolLookup ==
    PoolBuilt =>
      \A index \in 0 .. (Records(PoolData(input)) + 2) :
          get(from_streams(PoolData(input), StringData(input)), index)
            = IF index = 0 \/ index > Records(PoolData(input)) THEN None
              ELSE Some(PoolText(PoolData(input),
                                 SliceOf(PoolData(input), StringData(input), index)))

\* C17, amended: as C17 for a record whose slice lies inside the string
\* data; a record whose slice would run past the end of the string data
\* gives the empty string
C17_PoolLookupInside ==
    PoolBuilt =>
      \A index \in 0 .. (Records(PoolData(input)) + 2) :
          get(from_streams(PoolData(input), StringData(input)), index)
            = IF index = 0 \/ index > Records(PoolData(input)) THEN None
              ELSE IF LengthSum(PoolData(input), index) > Len(StringData(input))
              THEN Some(<<>>)
              ELSE Some(PoolText(PoolData(input),
                                 SliceOf(PoolData(input), StringData(input), index)))

\* a pool with a record that runs past the string data has been built and
\* a Property row resolved against it
C17_Witness ==
    /\ PoolBuilt /\ Succeeded
    /\ LengthSum(PoolData(input), Records(PoolData(input))) > Len(StringData(input))
    /\ Has(outcome.map, "Key") /\ outcome.map["Key"] = "value"

\* the characters of the 6-bit codes 0..63, in order
CODE_CHARS == Bytes(<<"0","1","2","3","4","5","6","7","8","9","a","b","c","d","e","f","g","h","i","j","k","l","m","n","o","p","q","r","s","t","u","v","w","x","y","z","A","B","C","D","E","F","G","H","I","J","K","L","M","N","O","P","Q","R","S","T","U","V","W","X","Y","Z","_",".">>)

\* what one character of a mangled name stands for: the characters of its
\* two 6-bit codes, low code first, or itself outside [0x3800, 0x4840)
TwoCodes(n) ==
    IF n >= 14336 /\ n < 18496
    THEN <<CODE_CHARS[((n - 14336) % 64) + 1], CODE_CHARS[(((n - 14336) \div 64) % 64) + 1]>>
    ELSE <<n>>

\* the package's storage entries have been listed and their names decoded
NamesDecoded == MsiCall /\ input.cfb.open /\ input.cfb.rootOk

\* C18: decoding a mangled stream name maps every character in
\* [0x3800, 0x4840) to the two characters of its two 6-bit codes, low code
\* first, and passes every other character through unchanged
C18_StreamNames ==
    NamesDecoded =>
      \A k \in 1..Len(input.cfb.entries) :
          decode_msi_stream_name(input.cfb.entries[k].name)
            = Concat([j \in 1..Len(input.cfb.entries[k].name) |->
                         TwoCodes(input.cfb.entries[k].name[j])])

\* what a call on this buffer may return: one result for each order in
\* which the map of version strings may be iterated
Returns(in, c) ==
    IF c = "get_file_info" THEN {get_file_info(in)}
    ELSE {analyze_file(in, ord) : ord \in Orders(DOMAIN AllStrings(in.pe))}

\* C19: extraction is a deterministic function of the input buffer: a call
\* on the same bytes returns the same map, whatever was called before
C19_Deterministic ==
    call # "none" => \A other \in Returns(input, call) : other = outcome

\* what the Property table and the Summary Information give, before any
\* heuristic fallback
StructuredMsi(in) ==
    extract_summary_info_enhanced(in.cfb,
        ReadTables(in.cfb.entries, PoolData(in), StringData(in),
                   Insert(EmptyMap, "Format", Bytes(<<"M","S","I">>))))

\* what the parsed property list gives, before any string scan
StructuredDmg(in) ==
    IF find_plist_in_dmg(in.data).some /\ ~find_plist_in_dmg(in.data).panic
    THEN parse_plist_properly(in, find_plist_in_dmg(in.data).data, EmptyMap)
    ELSE EmptyMap

DmgCall == Analyzing /\ FirstSniffer(input) = "DMG"

\* every one of the keys that the structured parser has set has, in the
\* result, the value the parser gave it
Kept(keys, structured) ==
    \A k \in keys :
        Has(structured, k) => Has(outcome.map, k) /\ outcome.map[k] = Str(structured[k])

MsiKept ==
    MsiCall /\ input.cfb.open /\ input.cfb.rootOk /\ Succeeded
      => Kept({"ProductCode", "UpgradeCode", "Manufacturer", "ProductName", "ProductVersion"},
              StructuredMsi(input))

DmgKept ==
    DmgCall /\ Succeeded
      => Kept({"ProductName", "ProductVersion", "FileVersion", "LegalCopyright",
               "FileDescription", "BundleIdentifier"},
              StructuredDmg(input))

\* C20: a key that the structured parser has set is never overwritten by a
\* heuristic extractor that runs later: in MSI the values of the Property
\* table and the Summary Information survive the heuristic fallback, in DMG
\* the values of the parsed property list survive the string scans
C20_StructuredKept == MsiKept /\ DmgKept

\* the streams named \005SummaryInformation, and the bytes of the first
SummaryStreams(in) == SelectSeq(in.cfb.entries, LAMBDA e : e.name = SUMMARY_STREAM)

SummaryBytes(in) == SummaryStreams(in)[1].content

\* where the section of a property set begins, and how many properties
\* it declares
SectionAt(buf) == U32LE(buf, 44)

Declared(buf) == U32LE(buf, SectionAt(buf) + 4)

\* where property i (from 0) begins
PropertyStart(buf, i) == SectionAt(buf) + U32LE(buf, SectionAt(buf) + 8 + i * 8 + 4)

PropertyId(buf, i) == U32LE(buf, SectionAt(buf) + 8 + i * 8)

PropertyType(buf, i) == U16LE(buf, PropertyStart(buf, i))

\* a property set whose section, index and property headers lie inside it
WellFormedSet(buf) ==
    /\ Len(buf) >= 48 /\ U16LE(buf, 0) = 65534 /\ U32LE(buf, 24) # 0
    /\ SectionAt(buf) + 8 <= Len(buf)
    /\ SectionAt(buf) + U32LE(buf, SectionAt(buf)) <= Len(buf)
    /\ SectionAt(buf) + 8 + Declared(buf) * 8 <= Len(buf)
    /\ \A i \in 0 .. (Declared(buf) - 1) : PropertyStart(buf, i) + 8 <= Len(buf)

\* the text of property i: its bytes or UTF-16 units without the NULs
\* around them; empty when the property is no string inside the buffer
PropertyText(buf, i) ==
    IF PropertyType(buf, i) = 30
         /\ PropertyStart(buf, i) + 8 + U32LE(buf, PropertyStart(buf, i) + 4) <= Len(buf)
    THEN TrimMatches(LossyFrom(SubSeq(buf, PropertyStart(buf, i) + 9,
                                      PropertyStart(buf, i) + 8
                                        + U32LE(buf, PropertyStart(buf, i) + 4)), 1), 0)
    ELSE IF PropertyType(buf, i) = 31
         /\ PropertyStart(buf, i) + 8 + 2 * U32LE(buf, PropertyStart(buf, i) + 4) <= Len(buf)
    THEN TrimMatches(Utf16Lossy(SubSeq(buf, PropertyStart(buf, i) + 9,
                                       PropertyStart(buf, i) + 8
                                         + 2 * U32LE(buf, PropertyStart(buf, i) + 4))), 0)
    ELSE <<>>

\* the non-empty string properties with this id
StringsWithId(buf, pid) ==
    {i \in 0 .. (Declared(buf) - 1) : PropertyId(buf, i) = pid /\ PropertyText(buf, i) # <<>>}

SUMMARY_KEYS ==
    << <<2, "Title">>, <<3, "ProductName">>, <<4, "Manufacturer">>,
       <<5, "Keywords">>, <<6, "Comments">>, <<9, "PackageCode">> >>

\* the ids whose key the set changes in the map before
Applied(buf, before) ==
    {n \in 1..Len(SUMMARY_KEYS) :
        /\ StringsWithId(buf, SUMMARY_KEYS[n][1]) # {}
        /\ SUMMARY_KEYS[n][1] \in {2, 5, 6, 9} \/ ~Has(before, SUMMARY_KEYS[n][2])}

\* the value the set gives the key of SUMMARY_KEYS[n]: the last property
\* of an id that overwrites, the first of one that does not
AppliedText(buf, n) ==
    IF SUMMARY_KEYS[n][1] \in {2, 5, 6, 9}
    THEN PropertyText(buf, MaxOf(StringsWithId(buf, SUMMARY_KEYS[n][1])))
    ELSE PropertyText(buf, MinOf(StringsWithId(buf, SUMMARY_KEYS[n][1])))

\* the map before, with the Summary Information applied to it
WithSummary(buf, before) ==
    [k \in DOMAIN before \cup {SUMMARY_KEYS[n][2] : n \in Applied(buf, before)} |->
        IF \E n \in Applied(buf, before) : SUMMARY_KEYS[n][2] = k
        THEN AppliedText(buf, CHOOSE n \in Applied(buf, before) : SUMMARY_KEYS[n][2] = k)
        ELSE before[k]]

\* what the tables alone give
TablesOnly(in) ==
    ReadTables(in.cfb.entries, PoolData(in), StringData(in),
               Insert(EmptyMap, "Format", Bytes(<<"M","S","I">>)))

\* the Summary Information of the package has been read and applied
SummaryApplied ==
    /\ MsiCall /\ input.cfb.open /\ input.cfb.rootOk
    /\ SummaryStreams(input) # <<>>
    /\ SummaryStreams(input)[1].streamOk /\ SummaryStreams(input)[1].readOk
    /\ WellFormedSet(SummaryBytes(input))

\* C21: applied after the tables, a non-empty string property with id 2,
\* 5, 6 or 9 always sets Title, Keywords, Comments or PackageCode, one with
\* id 3 or 4 sets ProductName or Manufacturer only if that key is absent,
\* and every other id and every non-string type leaves the map unchanged
C21_SummaryApplied ==
    SummaryApplied =>
      /\ extract_summary_info_enhanced(input.cfb, TablesOnly(input))
           = WithSummary(SummaryBytes(input), TablesOnly(input))
      /\ Succeeded
      /\ \A n \in {n \in Applied(SummaryBytes(input), TablesOnly(input)) :
                     SUMMARY_KEYS[n][1] \in {2, 5, 6, 9}} :
            /\ Has(outcome.map, SUMMARY_KEYS[n][2])
            /\ outcome.map[SUMMARY_KEYS[n][2]] = Str(AppliedText(SummaryBytes(input), n))

\* a Summary Information with two titles, a second product name, a numeric
\* property and a property of another id has been applied
C21_Witness ==
    /\ SummaryApplied /\ Succeeded
    /\ Cardinality(StringsWithId(SummaryBytes(input), 2)) = 2
    /\ Has(outcome.map, "Title") /\ outcome.map["Title"] = "Two"
    /\ ~Has(outcome.map, "Keywords")

\* the 38-byte shape { 8 hex - 4 hex - 4 hex - 4 hex - 12 hex } at offset i
GuidShapeAt(data, i) ==
    /\ i + 38 <= BufLen(data)
    /\ ByteAt(data, i) = 123 /\ ByteAt(data, i + 37) = 125
    /\ \A d \in 1..36 :
          IF d \in {9, 14, 19, 24} THEN ByteAt(data, i + d) = 45
          ELSE IsHexDigit(ByteAt(data, i + d))

GuidShapes(data) == {i \in AllHits(data, <<123>>) : GuidShapeAt(data, i)}

\* the heuristic scan has searched the buffer of a package that is no
\* compound file
Scanning == MsiCall /\ ~input.cfb.open /\ Succeeded

\* C22: the GUID scan returns the first occurrence of the 38-byte shape,
\* at any offset including the last 38 bytes, in upper case, and nothing
\* when there is none; a non-hex character in an X position is no match
C22_GuidScan ==
    Scanning =>
      IF GuidShapes(Lossy(input.data)) = {} THEN ~Has(outcome.map, "ProductCode")
      ELSE /\ Has(outcome.map, "ProductCode")
           /\ outcome.map["ProductCode"]
                = Str([k \in 1..38 |->
                         ToAsciiUppercase(ByteAt(Lossy(input.data),
                                                 MinOf(GuidShapes(Lossy(input.data))) + k - 1))])

\* one digit, then 1 to 3 groups of a dot and digits
IsDottedVersion(v) ==
    /\ Len(v) >= 3 /\ IsAsciiDigit(v[1]) /\ v[2] = 46 /\ IsAsciiDigit(v[Len(v)])
    /\ \A k \in 1..Len(v) : IsAsciiDigit(v[k]) \/ v[k] = 46
    /\ \A k \in 1..(Len(v) - 1) : ~(v[k] = 46 /\ v[k + 1] = 46)
    /\ Cardinality({k \in 1..Len(v) : v[k] = 46}) <= 3

Dots(v) == Cardinality({k \in 1..Len(v) : v[k] = 46})

\* the candidates the scan finds in the buffer
VersionCandidates(data) ==
    {VersionFrom(data, i) : i \in {i \in VersionStarts(data) : IsVersion(VersionFrom(data, i))}}

\* v is a best candidate: none has more dots, and it starts with 3. only
\* if every candidate with as many dots does
BestOf(v, candidates) ==
    /\ v \in candidates
    /\ \A c \in candidates : Dots(c) <= Dots(v)
    /\ StartsWith(v, <<51, 46>>)
         => \A c \in candidates : Dots(c) = Dots(v) => StartsWith(c, <<51, 46>>)

\* the version the scan returned for the buffer
ScannedVersion == extract_version_pattern(Lossy(input.data))

\* C23: the version scan returns one digit followed by 1 to 3 groups of a
\* dot and digits, of total length at most 20, a candidate with the most
\* dots and, among those, one that does not start with 3. if there is one
C23_VersionScan ==
    Scanning /\ ScannedVersion.some =>
      /\ Has(outcome.map, "ProductVersion")
      /\ outcome.map["ProductVersion"] = Str(ScannedVersion.s)
      /\ IsDottedVersion(ScannedVersion.s)
      /\ Len(ScannedVersion.s) <= 20
      /\ BestOf(ScannedVersion.s, VersionCandidates(Lossy(input.data)))

PeCall == Analyzing /\ FirstSniffer(input) = "PE" /\ input.pe.kind = "PE"

\* where the candidate of pattern k begins, -1 when the pattern is absent
\* or ends the buffer
SubjectStart(buf, k) ==
    IF find_bytes(buf, signature_patterns[k]) < 0
         \/ find_bytes(buf, signature_patterns[k]) + Len(signature_patterns[k]) >= BufLen(buf)
    THEN -1
    ELSE find_bytes(buf, signature_patterns[k]) + Len(signature_patterns[k])

\* up to 100 bytes from there
SubjectBytes(buf, k) ==
    Slice(buf, SubjectStart(buf, k),
          IF SubjectStart(buf, k) + 100 < BufLen(buf) THEN 100
          ELSE BufLen(buf) - SubjectStart(buf, k))

\* the subject candidate of pattern k: the text up to a comma, a NUL or a
\* byte that is not printable, trimmed; empty when shorter than 3
SubjectText(buf, k) ==
    IF SubjectStart(buf, k) < 0 \/ TextEnd(SubjectBytes(buf, k), 0) < 3 THEN <<>>
    ELSE Trim(SubSeq(SubjectBytes(buf, k), 1, TextEnd(SubjectBytes(buf, k), 0)))

\* the patterns whose candidate the metadata-string validator accepts
ValidSubjects(buf) ==
    {k \in 1..Len(signature_patterns) : is_valid_metadata_string(SubjectText(buf, k))}

\* C24: the test the PE analyzer applies to a signature subject candidate
\* is the metadata-string validator: SignedBy is the first candidate that
\* the validator accepts, and is absent when it accepts none
C24_SameValidator ==
    PeCall /\ Succeeded =>
      IF ValidSubjects(input.data) = {} THEN ~Has(outcome.map, "SignedBy")
      ELSE /\ Has(outcome.map, "SignedBy")
           /\ outcome.map["SignedBy"]
                = Str(SubjectText(input.data, MinOf(ValidSubjects(input.data))))

\* the index width the flags of a pool stream select
WidthOf(pool_data) == IF U16LE(pool_data, 2) >= 32768 THEN 3 ELSE 2

\* the same pool stream with bit 0x8000 of its flags inverted
OtherFlag(pool_data) == [pool_data EXCEPT ![4] = (@ + 128) % 256]

\* an index of w bytes at offset, little-endian
IndexAt(row, offset, w) ==
    IF w = 2 THEN row[offset + 1] + row[offset + 2] * 256
    ELSE row[offset + 1] + row[offset + 2] * 256 + row[offset + 3] * 65536

\* the index values <<key, value>> of the rows of a Property stream
RowIndices(prop_data, w) ==
    [k \in 1..(Len(prop_data) \div (2 * w)) |->
        <<IndexAt(prop_data, (k - 1) * 2 * w, w), IndexAt(prop_data, (k - 1) * 2 * w + w, w)>>]

\* the same index values stored w bytes wide
RowsOfWidth(indices, w) ==
    Concat([k \in 1..Len(indices) |-> Row2(indices[k][1], indices[k][2], w)])

\* the readable Property tables of the package
PropertyTables(in) ==
    SelectSeq(in.cfb.entries,
              LAMBDA e : TableName(e) = Bytes(<<"P","r","o","p","e","r","t","y">>) /\ e.streamOk /\ e.readOk)

\* the package has a pool with at least a header and Property rows whose
\* index values fit in two bytes
RowsResolved ==
    /\ PoolBuilt /\ Len(PoolData(input)) >= 4
    /\ PropertyTables(input) # <<>>
    /\ \A t \in 1..Len(PropertyTables(input)) :
          \A k \in 1..Len(RowIndices(PropertyTables(input)[t].content, WidthOf(PoolData(input)))) :
              /\ RowIndices(PropertyTables(input)[t].content, WidthOf(PoolData(input)))[k][1] < 65536
              /\ RowIndices(PropertyTables(input)[t].content, WidthOf(PoolData(input)))[k][2] < 65536

\* what the rows of a Property stream resolve to with a pool stream
Resolved(prop_data, pool_data, string_data) ==
    PropertyRows(prop_data, from_streams(pool_data, string_data), EmptyMap)

\* C25: bit 0x8000 of the pool flags selects 3-byte indices, its absence
\* 2-byte indices, and the package that differs only in that flag and in
\* the width of the stored indices resolves every Property row to the same
\* key and value
C25_IndexWidth ==
    RowsResolved =>
      /\ from_streams(PoolData(input), StringData(input)).index_size = WidthOf(PoolData(input))
      /\ \A t \in 1..Len(PropertyTables(input)) :
            Resolved(PropertyTables(input)[t].content, PoolData(input), StringData(input))
              = Resolved(RowsOfWidth(RowIndices(PropertyTables(input)[t].content,
                                                WidthOf(PoolData(input))),
                                     5 - WidthOf(PoolData(input))),
                         OtherFlag(PoolData(input)), StringData(input))

\* a package with 3-byte indices has had its Property rows resolved
C25_Witness ==
    /\ RowsResolved /\ Succeeded
    /\ WidthOf(PoolData(input)) = 3
    /\ Has(outcome.map, "ProductVersion") /\ outcome.map["ProductVersion"] = "1.2.3"
    /\ Has(outcome.map, "Manufacturer")

\* the offsets at which needle occurs in a buffer
Occurrences(segs, needle) ==
    {i \in 0..(BufLen(segs) - Len(needle)) : Matches(segs, i, needle)}

\* every occurrence of other in the buffer lies inside an occurrence of mark
InsideOf(segs, other, mark) ==
    \A i \in Occurrences(segs, other) :
        \E j \in Occurrences(segs, mark) :
            j <= i /\ i + Len(other) <= j + Len(mark)

\* mark, a pattern of group g, occurs, and no pattern of another group
\* occurs outside of it
OnlyPattern(segs, g, mark) ==
    /\ Occurrences(segs, mark) # {}
    /\ \A h \in (1..Len(installer_marks)) \ {g} :
          \A other \in installer_marks[h].marks : InsideOf(segs, other, mark)

\* the groups one of whose patterns occurs in the buffer
GroupsFound(segs) ==
    {g \in 1..Len(installer_marks) :
        \E mark \in installer_marks[g].marks : Occurrences(segs, mark) # {}}

\* C26: InstallerType is the label of the first group, in the listed
\* order, one of whose patterns occurs in the buffer, and is absent when
\* none occurs; a pattern that is the only listed one in the buffer selects
\* its own group
C26_InstallerType ==
    (PeCall /\ Succeeded) =>
      /\ GroupsFound(input.data) = {} => ~Has(outcome.map, "InstallerType")
      /\ GroupsFound(input.data) # {} =>
            /\ Has(outcome.map, "InstallerType")
            /\ outcome.map["InstallerType"]
                 = Str(installer_marks[MinOf(GroupsFound(input.data))].type)
      /\ \A g \in 1..Len(installer_marks) :
            \A mark \in installer_marks[g].marks :
                OnlyPattern(input.data, g, mark) =>
                    /\ Has(outcome.map, "InstallerType")
                    /\ outcome.map["InstallerType"] = Str(installer_marks[g].type)

FROM_SIGNATURE == Bytes(<<" ","(","f","r","o","m"," ","d","i","g","i","t","a","l"," ","s","i","g","n","a","t","u","r","e",")">>)

\* the version info of the image was read
VersionRead(in) == in.pe.image /\ in.pe.resources.ok /\ in.pe.version.ok

\* the map as it stands when the version info is read: installer type,
\* embedded package and signature subject have been looked for
BeforeVersion(in) == detect_installer_type(in, Insert(EmptyMap, "Format", Bytes(<<"P","E">>)))

\* the version info gave a CompanyName string
CompanyFromStrings(in) ==
    VersionRead(in) /\ "CompanyName" \in DOMAIN AllStrings(in.pe)

\* the version info gave no string, and the company found before it is to
\* be marked
CompanyFromSignature(in) ==
    /\ VersionRead(in) /\ DOMAIN AllStrings(in.pe) = {}
    /\ Has(BeforeVersion(in), "SignedBy") /\ Has(BeforeVersion(in), "CompanyName")
    /\ ~Contains(BeforeVersion(in)["CompanyName"], Bytes(<<"f","r","o","m"," ","d","i","g","i","t","a","l"," ","s","i","g","n","a","t","u","r","e">>))

\* the value of key in the output is one of the image's values followed
\* by the suffix
Suffixed(key) ==
    /\ Has(outcome.map, key)
    /\ \E v \in {AllStrings(input.pe)[k] : k \in DOMAIN AllStrings(input.pe)}
                  \cup {BeforeVersion(input)[k] : k \in DOMAIN BeforeVersion(input)} :
          outcome.map[key] = Str(v \o FROM_SIGNATURE)

\* C27 as stated: when CompanyName came from the version strings and
\* SignedBy is in the output, CompanyName, Publisher and Vendor end with
\* the suffix
C27_SuffixWithStrings ==
    (PeCall /\ Succeeded /\ CompanyFromStrings(input) /\ Has(outcome.map, "SignedBy")) =>
        Suffixed("CompanyName") /\ Suffixed("Publisher") /\ Suffixed("Vendor")

\* C27: when the version info holds no string and a company and SignedBy
\* were found before it, CompanyName, and Publisher and Vendor where
\* present, are what was found followed by the suffix; a CompanyName of the
\* version strings is output as it is
C27_SuffixWithoutStrings ==
    (PeCall /\ Succeeded) =>
      /\ CompanyFromSignature(input) =>
            \A key \in {"CompanyName", "Publisher", "Vendor"} :
                IF Has(BeforeVersion(input), key)
                THEN /\ Has(outcome.map, key)
                     /\ outcome.map[key] = Str(BeforeVersion(input)[key] \o FROM_SIGNATURE)
                ELSE ~Has(outcome.map, key)
      /\ CompanyFromStrings(input) =>
            /\ Has(outcome.map, "CompanyName")
            /\ outcome.map["CompanyName"] = Str(AllStrings(input.pe)["CompanyName"])

\* a signed image without version strings has been analyzed, and its
\* publisher is marked
C27_Witness ==
    /\ PeCall /\ Succeeded /\ CompanyFromSignature(input)
    /\ Has(outcome.map, "Publisher")
    /\ outcome.map["Publisher"] = "Acme Corp (from digital signature)"
    /\ outcome.map["SignedBy"] = "Acme Corp"

\* what the property list and the string scans have gathered when the
\* aliases are made: the fields the input itself provides
Gathered(in) ==
    IF Has(StructuredDmg(in), "ProductName") /\ Has(StructuredDmg(in), "ProductVersion")
    THEN StructuredDmg(in)
    ELSE Scanned(in.data, Lossy(in.data), StructuredDmg(in)).meta

\* the description made of a product name
NamedDescription(name) == sanitize_string(name) \o Bytes(<<" ","I","n","s","t","a","l","l","e","r">>)

\* a product name was gathered that is not empty once sanitized
NameGathered(in) ==
    Has(Gathered(in), "ProductName") /\ sanitize_string(Gathered(in)["ProductName"]) # <<>>

\* C28 as stated: FileDescription is in every DMG output, and is 'Apple
\* Disk Image' whenever the input provided no description, also when a
\* ProductName was found
C28_DefaultDescription ==
    (DmgCall /\ Succeeded) =>
      /\ Has(outcome.map, "FileDescription")
      /\ ~Has(Gathered(input), "FileDescription") =>
            outcome.map["FileDescription"] = "Apple Disk Image"

\* C28: FileDescription is in every DMG output; when the input provided no
\* description it is the sanitized ProductName followed by ' Installer' if
\* a ProductName was found, and 'Apple Disk Image' if none was
C28_DescriptionOrDefault ==
    (DmgCall /\ Succeeded) =>
      /\ Has(outcome.map, "FileDescription")
      /\ outcome.map["FileDescription"]
           = IF Has(Gathered(input), "FileDescription")
             THEN Str(Gathered(input)["FileDescription"])
             ELSE IF NameGathered(input)
             THEN Str(NamedDescription(Gathered(input)["ProductName"]))
             ELSE "Apple Disk Image"

\* a disk image that names its product and has no description has been
\* analyzed
C28_Witness ==
    /\ DmgCall /\ Succeeded
    /\ ~Has(Gathered(input), "FileDescription") /\ NameGathered(input)
    /\ outcome.map["FileDescription"] = "Foo Installer"

INFO_PLIST == Bytes(<<"C","o","n","t","e","n","t","s","/","I","n","f","o",".","p","l","i","s","t">>)

\* the window around a position: PLIST_WINDOW bytes to either side, cut to
\* the buffer
WindowStart(pos) == IF pos > PLIST_WINDOW THEN pos - PLIST_WINDOW ELSE 0

WindowEnd(pos, len) == IF pos + PLIST_WINDOW < len THEN pos + PLIST_WINDOW ELSE len

\* where find_plist_in_dmg finds the text: in the lossily decoded string
FoundAt(data) == find_bytes(Lossy(data), INFO_PLIST)

\* C29: on every buffer the DMG sniffer accepts, product-info discovery
\* completes and a map is returned; when 'Contents/Info.plist' occurs at
\* byte offset p of the buffer the searched window is
\* [max(0, p - 100000), min(len, p + 100000)), with start <= end <= len
C29_WindowInside ==
    DmgCall =>
      /\ outcome.kind = "ok"
      /\ find_bytes(input.data, INFO_PLIST) >= 0 =>
            /\ WindowStart(FoundAt(input.data))
                 = WindowStart(find_bytes(input.data, INFO_PLIST))
            /\ WindowEnd(FoundAt(input.data), BufLen(input.data))
                 = WindowEnd(find_bytes(input.data, INFO_PLIST), BufLen(input.data))
            /\ WindowStart(FoundAt(input.data))
                 <= WindowEnd(FoundAt(input.data), BufLen(input.data))

\* the text of entry i as the store holds it: from its offset up to the
\* first NUL of the store, or to the end of the store when it has none
StoreText(data, i) ==
    Slice(data, ValueStart(data, i),
          (IF NulsAfter(data, i) = {} THEN StoreEnd(data) ELSE MinOf(NulsAfter(data, i)))
            - ValueStart(data, i))

\* entry i begins inside the store, and the value is its text there
ReadInStore(data, i, value) ==
    /\ ByteAt(data, ImmutableAt(data) + 16 + i * 16 + 8) = 0
    /\ ValueStart(data, i) < StoreEnd(data)
    /\ value = Str(StoreText(data, i))

\* C30: every string the RPM analyzer stores was read from inside the
\* store of the Immutable Header: each mapped key of the output holds the
\* text that an entry with its tag has in [store_start, store_start +
\* store_size)
C30_InsideStore ==
    (RpmCall /\ Succeeded /\ WholeHeaderAt(input.data, RPM_LEAD_SIZE)
       /\ WholeHeaderAt(input.data, ImmutableAt(input.data))) =>
        \A t \in 1..Len(MAPPED_TAGS) :
            Has(outcome.map, MAPPED_TAGS[t][2]) =>
                \E i \in EntriesTagged(input.data, MAPPED_TAGS[t][1]) :
                    ReadInStore(input.data, i, outcome.map[MAPPED_TAGS[t][2]])

====
